---------------------------- MODULE Spec2Model ----------------------------
(***************************************************************************)
(* Analysis orchestration of the CAD drawing analyzers.                    *)
(*                                                                         *)
(*   AdvancedCADVisualAnalyzer   (backend/app/cad/advanced_visual_analyzer)*)
(*       comprehensive_analysis : five passes, each analyze_single_pass    *)
(*       with rate-limit retry, then _generate_synthesis.                  *)
(*   MultiModelCADAnalyzer       (backend/app/cad/multi_model_analyzer)    *)
(*       comprehensive_analysis : five stages, each                        *)
(*       analyze_with_auto_fallback (primary -> lite -> OpenRouter), then  *)
(*       the executive summary call.                                       *)
(*                                                                         *)
(* A request is one run of one of the two comprehensive_analysis methods.  *)
(* The process is cut at its suspension points: a provider call that is    *)
(* outstanding, and the sleeps.                                            *)
(***************************************************************************)
EXTENDS Integers, Sequences, FiniteSets, TLC

VARIABLES
    analyzer,       \* "ADV" | "MM": the class that serves the request
    png_exists,     \* whether png_path names an existing file
    pc,             \* position of the request
    idx,            \* 1-based index of the current pass (enumerate(..., 1))
    attempt,        \* analyze_single_pass: loop variable of range(retry_count)
    analyses,       \* results['analyses']: dict in insertion order
    errors,         \* results['errors']
    summary,        \* results['summary']
    synthInput,     \* _generate_synthesis: combined_text sent to the provider
    outstanding,    \* provider calls issued and not yet answered
    started,        \* pass indices in the order of their first provider call
    calls,          \* provider calls issued for the current pass
    nwaits,         \* back-off sleeps of the current pass
    lastWait,       \* <<message, wait_time>> of the latest back-off sleep
    lastOutcome,    \* per pass: what the provider answered last
    raised,         \* exception that left the request, "none" if none
    synthCalls,     \* provider calls issued for the synthesis / summary
    model_id,       \* MultiModelCADAnalyzer: the requested model
    gemini_models,  \* self.gemini_models: names of the initialised models
    openrouter_api_key, \* whether self.openrouter_api_key is set
    cascadePos,     \* analyze_with_auto_fallback: member of the cascade called
    cascadeLog,     \* calls of the current analyze_with_auto_fallback, in order
    mm_results,     \* MultiModelCADAnalyzer: results, dict in insertion order
    provider_used,  \* MultiModelCADAnalyzer: provider_used
    mm_summary,     \* MultiModelCADAnalyzer: summary
    used_provider,  \* MultiModelCADAnalyzer: used_provider of the latest return
    targets,        \* models and providers called so far in the request
    synthOutcome,   \* how the synthesis / summary call ended
    retry_count,    \* analyze_single_pass: retry_count
    result,         \* the latest result analyze_single_pass returned
    dxf,            \* DXFParser.parse: the file at dxf_path
    source_file,    \* DXFParser.parse: source_file
    writable,       \* whether a file can be written in manifest_dir
    manifest,       \* the manifest DXFParser.parse returned
    saved,          \* content of the manifest file {file_id}_Model.json
    parser_pc,      \* position of the parser: ready, parsed, reparsed, raised
    rag_text,       \* what extract_text_for_rag returned
    entity_counter, \* EntityExtractor.entity_counter
    image,          \* CADFeatureExtractor: what is found in the image
    failing,        \* the sub-detectors that raise on the image
    features,       \* what extract_features returned
    cv_pc,          \* position of the feature extractor: ready, done
    MODELS,         \* MultiModelCADAnalyzer.MODELS, dict in insertion order
    include_vision, \* analyze_with_cv_assistance: include_vision
    png_content,    \* the bytes of the file at png_path
    vision_model_id, \* comprehensive_hybrid_analysis: vision_model_id
    text_model_ids, \* comprehensive_hybrid_analysis: text_model_ids
    vision_analysis, \* results["vision_analysis"]
    text_analyses,  \* results["text_analyses"]
    synthesis,      \* results["synthesis"]
    hy_result,      \* what analyze_with_cv_assistance returned to its caller
    trail           \* per finished analyze_with_cv_assistance: model and calls

hybridVars == <<include_vision, png_content, vision_model_id, text_model_ids,
               vision_analysis, text_analyses, synthesis, hy_result, trail>>

orchVars == <<analyzer, png_exists, pc, idx, attempt, analyses, errors, summary,
              synthInput, outstanding, started, calls, nwaits, lastWait,
              lastOutcome, raised, synthCalls, model_id, gemini_models,
              openrouter_api_key, cascadePos, cascadeLog, mm_results,
              provider_used, mm_summary, used_provider, targets, synthOutcome,
              retry_count, result, MODELS, hybridVars>>

parserVars == <<dxf, source_file, writable, manifest, saved, parser_pc,
                rag_text, entity_counter>>
cvVars == <<image, failing, features, cv_pc>>

vars == <<orchVars, parserVars, cvVars>>

-----------------------------------------------------------------------------
(* Text: a string is a sequence of one-character strings.                  *)

UpperChars ==
    <<"A", "B", "C", "D", "E", "F", "G", "H", "I", "J", "K", "L", "M",
      "N", "O", "P", "Q", "R", "S", "T", "U", "V", "W", "X", "Y", "Z">>

LowerChars ==
    <<"a", "b", "c", "d", "e", "f", "g", "h", "i", "j", "k", "l", "m",
      "n", "o", "p", "q", "r", "s", "t", "u", "v", "w", "x", "y", "z">>

Digits ==
    <<"0", "1", "2", "3", "4", "5", "6", "7", "8", "9">>

\* str.lower() of one character
LowerChar(c) ==
    IF \E i \in 1..Len(UpperChars) : UpperChars[i] = c
    THEN LowerChars[CHOOSE i \in 1..Len(UpperChars) : UpperChars[i] = c]
    ELSE c

\* str.lower()
Lower(s) ==
    [i \in 1..Len(s) |-> LowerChar(s[i])]

\* sub in s
Contains(s, sub) ==
    \E i \in 1..(Len(s) - Len(sub) + 1) : SubSeq(s, i, i + Len(sub) - 1) = sub

IsDigit(c) ==
    \E i \in 1..Len(Digits) : Digits[i] = c

DigitVal(c) ==
    (CHOOSE i \in 1..Len(Digits) : Digits[i] = c) - 1

\* index of the last character of the maximal run of digits that starts at j
\* (\d+ is greedy); s[j] is a digit
DigitsEnd(s, j) ==
    CHOOSE k \in j..Len(s) :
        /\ \A i \in j..k : IsDigit(s[i])
        /\ (k = Len(s) \/ ~IsDigit(s[k + 1]))

RECURSIVE IntOf(_)
\* value of a sequence of digits, read as a decimal number
IntOf(ds) ==
    IF ds = <<>> THEN 0
    ELSE 10 * IntOf(SubSeq(ds, 1, Len(ds) - 1)) + DigitVal(ds[Len(ds)])

RECURSIVE Pow10(_)
Pow10(n) ==
    IF n = 0 THEN 1 ELSE 10 * Pow10(n - 1)

\* Python's None
None == "None"

\* A duration in seconds is a fraction <<numerator, denominator>>; NoMatch is
\* the None of re.search
NoMatch == <<>>

RetryInLit ==
    <<"r", "e", "t", "r", "y", " ", "i", "n", " ">>

\* re.search(r'retry in (\d+(?:\.\d+)?)', s), then float(match.group(1)):
\* the leftmost position where "retry in " is followed by a digit; the group
\* is the digits and, when a "." and a digit follow, the fraction digits too.
RetrySearch(s) ==
    LET L == Len(RetryInLit)
        starts == {i \in 1..(Len(s) - L) :
                      /\ SubSeq(s, i, i + L - 1) = RetryInLit
                      /\ IsDigit(s[i + L])}
    IN  IF starts = {} THEN NoMatch
        ELSE LET i  == CHOOSE a \in starts : \A b \in starts : a <= b
                 j  == i + L
                 k  == DigitsEnd(s, j)
                 hasFrac == /\ k + 2 <= Len(s)
                            /\ s[k + 1] = "."
                            /\ IsDigit(s[k + 2])
                 f  == IF hasFrac THEN DigitsEnd(s, k + 2) ELSE k
                 frac == IF hasFrac THEN SubSeq(s, k + 2, f) ELSE <<>>
             IN  <<IntOf(SubSeq(s, j, k) \o frac), Pow10(Len(frac))>>


-----------------------------------------------------------------------------
(* Provider error texts.  Each entry is one str(e) a provider call can      *)
(* raise; hint is the duration the provider put after "retry in" (NoMatch   *)
(* when it put none).                                                       *)

Messages ==
    << [text |-> <<"4", "2", "9", " ", "r", "e", "t", "r", "y", " ", "i", "n",
                   " ", "4", "5">>,
        hint |-> <<45, 1>>],
       [text |-> <<"4", "2", "9", " ", "r", "e", "t", "r", "y", " ", "i", "n",
                   " ", "9", "9", "9", "9">>,
        hint |-> <<9999, 1>>],
       [text |-> <<"R", "E", "S", "O", "U", "R", "C", "E", "_", "E", "X", "H",
                   "A", "U", "S", "T", "E", "D">>,
        hint |-> NoMatch],
       [text |-> <<"4", "2", "9", " ", "R", "e", "t", "r", "y", " ", "i", "n",
                   " ", "7", ".", "5", "s">>,
        hint |-> <<75, 10>>],
       [text |-> <<"5", "0", "0", " ", "r", "e", "t", "r", "y", " ", "i", "n",
                   " ", "4", "5">>,
        hint |-> <<45, 1>>],
       [text |-> <<"Q", "u", "o", "t", "a", " ", "e", "x", "c", "e", "e", "d",
                   "e", "d">>,
        hint |-> NoMatch] >>

MsgIds == 1..Len(Messages)

\* str(e) of the exception with message number m
ErrorText(m) == Messages[m].text

-----------------------------------------------------------------------------
(* AdvancedCADVisualAnalyzer                                                *)

\* self.model_id
AdvModelId == "gemini-2.5-flash"

\* self.analysis_passes, in insertion order
PassNames ==
    <<"overview", "technical", "components", "measurements", "quality">>

\* total_passes = len(self.analysis_passes)
TotalPasses == Len(PassNames)

\* retry_count: int = 3
RetryCount == 3

\* largest retry_count a direct caller of analyze_single_pass passes
MaxRetryCount == 4

\* wait_time = 10
DefaultWait == 10

\* min(float(match.group(1)), 60)
MaxWait == 60

\* time.sleep(1) between passes
PaceDelay == 1

\* '429' in error_msg or 'RESOURCE_EXHAUSTED' in error_msg
IsRateLimit(error_msg) ==
    \/ Contains(error_msg, <<"4", "2", "9">>)
    \/ Contains(error_msg, <<"R", "E", "S", "O", "U", "R", "C", "E", "_", "E",
                             "X", "H", "A", "U", "S", "T", "E", "D">>)

\* CapWait without the ceiling
CapWait_NoCeiling(d, cap) == d

\* min(d, cap) of a duration d and a whole number of seconds
CapWait(d, cap) ==
    IF d[1] >= cap * d[2] THEN <<cap, 1>> ELSE d

\* the wait_time analyze_single_pass sleeps on a rate-limit error
WaitTime(error_msg) ==
    LET low == Lower(error_msg)
    IN  IF Contains(low, <<"r", "e", "t", "r", "y", " ", "i", "n">>)
        THEN LET match == RetrySearch(low)
             IN  IF match # NoMatch THEN CapWait(match, MaxWait)
                 ELSE <<DefaultWait, 1>>
        ELSE <<DefaultWait, 1>>

\* RetryAgain that retries after any error
RetryAgain_AnyError(error_msg, att, max_att) == att < max_att - 1

\* RetryAgain that allows one attempt too many
RetryAgain_OffByOne(error_msg, att, max_att) ==
    IsRateLimit(error_msg) /\ att < max_att

\* RetryAgain that gives up on the first rate-limit error
RetryAgain_Never(error_msg, att, max_att) == FALSE

\* if attempt < retry_count - 1, under the rate-limit test
RetryAgain(error_msg, att, max_att) ==
    IsRateLimit(error_msg) /\ att < max_att - 1

\* the provider's text for a prompt
Response(name) == <<"response to", name>>

\* results['summary'] = {}
EmptySummary == [synthesis_success |-> "absent"]

\* combined_text of _generate_synthesis: one "=== NAME ===\ncontent" section
\* per item of analyses, in order
CombinedText(an) ==
    [i \in 1..Len(an) |-> <<an[i].pass, an[i].analysis>>]

\* if len(results['analyses']) > 0
SynthesisTriggered(an) == Len(an) > 0

\* RecordAnalyses that stores the result of a failed pass too
RecordAnalyses_Always(an, res) ==
    Append(an, [pass |-> res.pass_name, analysis |-> res.analysis])

\* comprehensive_analysis: fold the result of analyze_single_pass into results
RecordAnalyses(an, res) ==
    IF res.success THEN Append(an, [pass |-> res.pass_name,
                                        analysis |-> res.analysis])
    ELSE an

\* RecordErrors that files every result, the successful ones too
RecordErrors_Always(er, res) ==
    Append(er, [pass |-> res.pass_name, error |-> res.error])

\* RecordErrors that loses the failed result
RecordErrors_Drop(er, res) == er

\* results['errors'].append(...) for a failed pass
RecordErrors(er, res) ==
    IF res.success THEN er
    ELSE Append(er, [pass |-> res.pass_name, error |-> res.error])

\* if idx < total_passes: time.sleep(1), else leave the loop
AfterPass(i) ==
    IF i < TotalPasses THEN "adv_pace" ELSE "adv_synth"

\* no result yet
NoResult ==
    [pass_name |-> None, success |-> FALSE, analysis |-> <<>>, error |-> None]

\* the result analyze_single_pass returns when its loop ends without one
FailedAfter(pass_name, n) ==
    [pass_name |-> pass_name, success |-> FALSE, analysis |-> <<>>,
     error |-> <<"Failed after", n, "attempts">>]

cfgVars == <<analyzer, png_exists, model_id, gemini_models, openrouter_api_key,
             retry_count, parserVars, cvVars, hybridVars>>
reportVars == <<analyses, errors, summary, synthInput>>
passVars == <<attempt, calls, nwaits, lastWait>>
mmVars == <<cascadePos, cascadeLog, mm_results, provider_used, mm_summary,
           used_provider>>
synthVars == <<synthCalls, synthOutcome>>

\* comprehensive_analysis is entered: preprocess_image opens the file
AdvStart ==
    /\ pc = "start"
    /\ analyzer = "ADV"
    /\ IF png_exists
       THEN /\ pc' = "adv_call"
            /\ raised' = raised
       ELSE /\ pc' = "raised"
            /\ raised' = "FileNotFoundError"
    /\ UNCHANGED <<MODELS, cfgVars, reportVars, passVars, mmVars, synthVars, result,
                   idx, outstanding, started, lastOutcome, targets>>

\* analyze_single_pass is called on its own, for any pass name; with no
\* attempt to make, the loop is skipped
PassStart ==
    /\ pc = "start"
    /\ analyzer = "PASS"
    /\ \E i \in 1..TotalPasses :
        /\ idx' = i
        /\ IF retry_count > 0
           THEN /\ pc' = "adv_call"
                /\ result' = result
           ELSE /\ pc' = "done"
                /\ result' = FailedAfter(PassNames[i], retry_count)
    /\ UNCHANGED <<MODELS, cfgVars, reportVars, passVars, mmVars, synthVars,
                   outstanding, started, lastOutcome, targets, raised>>

\* self.client.models.generate_content(...) of analyze_single_pass is sent
AdvIssueCall ==
    /\ pc = "adv_call"
    /\ outstanding' = outstanding \cup
            {[to |-> AdvModelId, pass |-> PassNames[idx], image |-> TRUE]}
    /\ calls' = calls + 1
    /\ started' = IF attempt = 0 THEN Append(started, idx) ELSE started
    /\ targets' = targets \cup {AdvModelId}
    /\ pc' = "adv_wait"
    /\ UNCHANGED <<MODELS, cfgVars, reportVars, mmVars, synthVars, result, idx,
                   attempt, nwaits, lastWait, lastOutcome, raised>>

\* analyze_single_pass returns res: a direct caller has it; comprehensive_analysis
\* files it under analyses or errors and sleeps or leaves the loop
Deliver(res) ==
    /\ result' = res
    /\ IF analyzer = "PASS"
       THEN /\ pc' = "done"
            /\ UNCHANGED <<analyses, errors>>
       ELSE /\ analyses' = RecordAnalyses(analyses, res)
            /\ errors' = RecordErrors(errors, res)
            /\ pc' = AfterPass(idx)

\* the call returns response.text
AdvRespondOk ==
    /\ pc = "adv_wait"
    /\ Deliver([pass_name |-> PassNames[idx], success |-> TRUE,
                analysis |-> Response(PassNames[idx]), error |-> None])
    /\ outstanding' = {}
    /\ lastOutcome' = [lastOutcome EXCEPT ![idx] = "ok"]
    /\ UNCHANGED <<MODELS, cfgVars, passVars, mmVars, synthVars, summary, synthInput,
                   idx, started, targets, raised>>

\* the call raises an exception whose text is message m
AdvRespondErr ==
    /\ pc = "adv_wait"
    /\ \E m \in MsgIds :
        /\ outstanding' = {}
        /\ lastOutcome' = [lastOutcome EXCEPT ![idx] = "err"]
        /\ IF RetryAgain(ErrorText(m), attempt, retry_count)
           THEN /\ lastWait' = <<m, WaitTime(ErrorText(m))>>
                /\ nwaits' = nwaits + 1
                /\ pc' = "adv_backoff"
                /\ UNCHANGED <<analyses, errors, result>>
           ELSE /\ Deliver([pass_name |-> PassNames[idx], success |-> FALSE,
                            analysis |-> <<>>, error |-> m])
                /\ UNCHANGED <<lastWait, nwaits>>
    /\ UNCHANGED <<MODELS, cfgVars, mmVars, synthVars, summary, synthInput, idx,
                   attempt, calls, started, targets, raised>>

\* time.sleep(wait_time) is over: continue with the next attempt
AdvBackoffDone ==
    /\ pc = "adv_backoff"
    /\ attempt' = attempt + 1
    /\ lastWait' = <<>>
    /\ pc' = "adv_call"
    /\ UNCHANGED <<MODELS, cfgVars, reportVars, mmVars, synthVars, result, idx,
                   outstanding, started, calls, nwaits, lastOutcome, targets,
                   raised>>

\* time.sleep(1) is over: the next pass begins
AdvPaceDone ==
    /\ pc = "adv_pace"
    /\ idx' = idx + 1
    /\ attempt' = 0
    /\ calls' = 0
    /\ nwaits' = 0
    /\ pc' = "adv_call"
    /\ UNCHANGED <<MODELS, cfgVars, reportVars, mmVars, synthVars, result,
                   outstanding, started, lastWait, lastOutcome, targets,
                   raised>>

\* after the loop: the synthesis call is sent, or the report is returned
AdvSynthesis ==
    /\ pc = "adv_synth"
    /\ IF SynthesisTriggered(analyses)
       THEN /\ synthInput' = CombinedText(analyses)
            /\ outstanding' = outstanding \cup
                    {[to |-> AdvModelId, pass |-> "synthesis",
                      image |-> FALSE]}
            /\ synthCalls' = synthCalls + 1
            /\ targets' = targets \cup {AdvModelId}
            /\ pc' = "adv_synth_wait"
       ELSE /\ pc' = "done"
            /\ UNCHANGED <<synthInput, outstanding, synthCalls, targets>>
    /\ UNCHANGED <<MODELS, cfgVars, passVars, mmVars, result, analyses, errors,
                   summary, idx, started, lastOutcome, raised, synthOutcome>>

\* _generate_synthesis: the call returns
AdvSynthRespondOk ==
    /\ pc = "adv_synth_wait"
    /\ summary' = [executive_summary |-> Response("synthesis"),
                   total_analysis_length |-> Len(synthInput),
                   synthesis_success |-> TRUE]
    /\ outstanding' = {}
    /\ synthOutcome' = "ok"
    /\ pc' = "done"
    /\ UNCHANGED <<MODELS, cfgVars, passVars, mmVars, result, analyses, errors,
                   synthInput, idx, started, lastOutcome, raised, synthCalls,
                   targets>>

\* _generate_synthesis: the call raises
AdvSynthRespondErr ==
    /\ pc = "adv_synth_wait"
    /\ \E m \in MsgIds :
         summary' = [executive_summary |-> "Synthesis generation failed",
                     error |-> m,
                     synthesis_success |-> FALSE]
    /\ outstanding' = {}
    /\ synthOutcome' = "err"
    /\ pc' = "done"
    /\ UNCHANGED <<MODELS, cfgVars, passVars, mmVars, result, analyses, errors,
                   synthInput, idx, started, lastOutcome, raised, synthCalls,
                   targets>>

-----------------------------------------------------------------------------
(* MultiModelCADAnalyzer                                                    *)

\* the MODELS of the class definition, in declaration order
ModelTable ==
    << [id |-> "gemini-2.5-flash", name |-> "Gemini 2.5 Flash",
        provider |-> "GEMINI_DIRECT", fallback_provider |-> "GEMINI_DIRECT",
        fallback_model |-> "gemini-2.5-flash-lite",
        capabilities |-> {"vision", "fast"},
        api_model |-> "gemini-2.5-flash"],
       [id |-> "gemini-2.5-flash-lite", name |-> "Gemini 2.5 Flash Lite",
        provider |-> "GEMINI_DIRECT", fallback_provider |-> None,
        fallback_model |-> None,
        capabilities |-> {"vision", "fast", "lite"},
        api_model |-> "gemini-2.5-flash-lite"],
       [id |-> "google/gemini-2.0-flash-exp:free",
        name |-> "Gemini 2.0 Flash (OpenRouter)",
        provider |-> "OPENROUTER", fallback_provider |-> None,
        fallback_model |-> None,
        capabilities |-> {"vision", "fast"}, api_model |-> None],
       [id |-> "nvidia/nemotron-nano-12b-v2-vl:free",
        name |-> "NVIDIA Nemotron Nano VL",
        provider |-> "OPENROUTER", fallback_provider |-> None,
        fallback_model |-> None,
        capabilities |-> {"vision", "technical"}, api_model |-> None],
       [id |-> "qwen/qwen-2.5-vl-7b-instruct:free", name |-> "Qwen 2.5 VL 7B",
        provider |-> "OPENROUTER", fallback_provider |-> None,
        fallback_model |-> None,
        capabilities |-> {"vision", "fast"}, api_model |-> None],
       [id |-> "meta-llama/llama-3.3-70b-instruct:free",
        name |-> "Llama 3.3 70B Instruct",
        provider |-> "OPENROUTER", fallback_provider |-> None,
        fallback_model |-> None,
        capabilities |-> {"reasoning", "large_context"}, api_model |-> None],
       [id |-> "google/gemma-3-27b-it:free", name |-> "Gemma 3 27B IT",
        provider |-> "OPENROUTER", fallback_provider |-> None,
        fallback_model |-> None,
        capabilities |-> {"reasoning", "fast"}, api_model |-> None],
       [id |-> "openai/gpt-oss-20b:free", name |-> "GPT OSS 20B",
        provider |-> "OPENROUTER", fallback_provider |-> None,
        fallback_model |-> None,
        capabilities |-> {"reasoning"}, api_model |-> None],
       [id |-> "deepseek/deepseek-r1", name |-> "DeepSeek R1",
        provider |-> "OPENROUTER", fallback_provider |-> None,
        fallback_model |-> None,
        capabilities |-> {"reasoning", "advanced"}, api_model |-> None],
       [id |-> "qwen/qwen3-235b-a22b", name |-> "Qwen 3 235B",
        provider |-> "OPENROUTER", fallback_provider |-> None,
        fallback_model |-> None,
        capabilities |-> {"reasoning", "advanced"}, api_model |-> None] >>

ModelIds == {ModelTable[i].id : i \in 1..Len(ModelTable)}

\* the None that MODELS.get() returns for a missing key, as a record
NoModelInfo ==
    [id |-> None, name |-> None, provider |-> None, fallback_provider |-> None,
     fallback_model |-> None, capabilities |-> {}, api_model |-> None]

\* self.MODELS.get(model_id)
MODELS_get(id) ==
    IF \E i \in 1..Len(MODELS) : MODELS[i].id = id
    THEN MODELS[CHOOSE i \in 1..Len(MODELS) : MODELS[i].id = id]
    ELSE NoModelInfo

\* a lookup by setdefault, which enters a missing key into the dict
MODELS_after_setdefault(models, id) ==
    IF \E i \in 1..Len(models) : models[i].id = id THEN models
    ELSE Append(models, [NoModelInfo EXCEPT !.id = id])

\* the registry after self.MODELS.get(model_id): dict.get leaves the dict
\* as it is, also for a key that is missing
MODELS_after_get(models, id) == models

\* model_info.get('api_model', 'gemini-2.5-flash')
ApiModel(model_info) ==
    IF model_info.api_model = None THEN "gemini-2.5-flash"
    ELSE model_info.api_model

\* the models __init__ puts into self.gemini_models when the key is set
InitialisedGemini == {"gemini-2.5-flash", "gemini-2.5-flash-lite"}

\* or_fallback
OrFallback == "google/gemini-2.0-flash-exp:free"

\* stages of comprehensive_analysis, in insertion order
StageNames ==
    <<"stage_1_overview", "stage_2_technical", "stage_3_components",
      "stage_4_measurements", "stage_5_quality">>

TotalStages == Len(StageNames)

\* name of the invocation number i of analyze_with_auto_fallback
InvocationName(i) ==
    IF i <= TotalStages THEN StageNames[i] ELSE "executive_summary"

\* analyze_with_gemini_direct: the exception raised for str(e) = error_msg
GeminiErrorKind(error_msg) ==
    IF \/ Contains(error_msg, <<"4", "2", "9">>)
       \/ Contains(Lower(error_msg), <<"q", "u", "o", "t", "a">>)
    THEN "quota" ELSE "error"

\* analyze_with_openrouter: every failure is re-raised as Exception
OpenRouterErrorKind(error_msg) == "error"

\* if fallback_model and fallback_model in self.gemini_models
FallbackAvailable(model_info, gm) ==
    model_info.fallback_model # None /\ model_info.fallback_model \in gm

\* CascadeNext that lets an error of the fallback model other than quota
\* leave the cascade
CascadeNext_FallbackRaises(pos, kind, model_info, gm, key) ==
    IF kind = "ok" THEN "return"
    ELSE CASE pos = "primary" ->
                IF kind = "quota"
                THEN IF FallbackAvailable(model_info, gm) THEN "fallback"
                     ELSE IF key THEN "openrouter" ELSE "exhausted"
                ELSE "raise"
           [] pos = "fallback" ->
                IF kind = "quota"
                THEN IF key THEN "openrouter" ELSE "exhausted"
                ELSE "raise"
           [] pos = "openrouter" -> "exhausted"
           [] pos = "direct" -> "raise"

\* CascadeNext with the lite fallback left out of the cascade
CascadeNext_SkipLite(pos, kind, model_info, gm, key) ==
    IF kind = "ok" THEN "return"
    ELSE CASE pos = "primary" ->
                IF kind = "quota"
                THEN IF key THEN "openrouter" ELSE "exhausted"
                ELSE "raise"
           [] pos = "fallback" ->
                IF key THEN "openrouter" ELSE "exhausted"
           [] pos = "openrouter" -> "exhausted"
           [] pos = "direct" -> "raise"

\* analyze_with_auto_fallback: what follows the answer `kind` ("ok", "quota",
\* "error") of the cascade member `pos`
CascadeNext(pos, kind, model_info, gm, key) ==
    IF kind = "ok" THEN "return"
    ELSE CASE pos = "primary" ->
                IF kind = "quota"
                THEN IF FallbackAvailable(model_info, gm) THEN "fallback"
                     ELSE IF key THEN "openrouter" ELSE "exhausted"
                ELSE "raise"
           [] pos = "fallback" ->
                IF key THEN "openrouter" ELSE "exhausted"
           [] pos = "openrouter" -> "exhausted"
           [] pos = "direct" -> "raise"

\* the model or provider a cascade member calls
CascadeTarget(pos, model_info) ==
    CASE pos = "primary" -> ApiModel(model_info)
      [] pos = "fallback" -> model_info.fallback_model
      [] pos = "openrouter" -> OrFallback
      [] pos = "direct" -> model_info.id

\* ProviderLabel that reports the model id for a model called directly
ProviderLabel_ModelId(pos, model_info) ==
    CASE pos = "primary" -> <<"Google Studio", ApiModel(model_info)>>
      [] pos = "fallback" ->
            <<"Google Studio", model_info.fallback_model, "(fallback)">>
      [] pos = "openrouter" -> <<"OpenRouter Gemini (fallback)">>
      [] pos = "direct" -> <<model_info.id>>

\* the second component of the tuple analyze_with_auto_fallback returns
ProviderLabel(pos, model_info) ==
    CASE pos = "primary" -> <<"Google Studio", ApiModel(model_info)>>
      [] pos = "fallback" ->
            <<"Google Studio", model_info.fallback_model, "(fallback)">>
      [] pos = "openrouter" -> <<"OpenRouter Gemini (fallback)">>
      [] pos = "direct" -> <<model_info.name>>

\* comprehensive_analysis: the request is refused before any call
MMPrecondition(exists, id) ==
    IF ~exists THEN "FileNotFoundError"
    ELSE IF MODELS_get(id) = NoModelInfo THEN "ValueError"
    ELSE IF "vision" \notin MODELS_get(id).capabilities THEN "ValueError"
    ELSE "ok"

\* the provider call a cascade member issues for invocation number i
MMCall(pos, model_info, i) ==
    [to |-> CascadeTarget(pos, model_info), pass |-> InvocationName(i),
     image |-> i <= TotalStages]

advVars == <<reportVars, passVars, result>>

MMStart ==
    /\ pc = "start"
    /\ analyzer = "MM"
    /\ LET pre == MMPrecondition(png_exists, model_id)
       IN  IF pre = "ok"
           THEN /\ pc' = "mm_invoke"
                /\ raised' = raised
           ELSE /\ pc' = "raised"
                /\ raised' = pre
    /\ MODELS' = MODELS_after_get(MODELS, model_id)
    /\ UNCHANGED <<cfgVars, advVars, mmVars, synthVars, idx, outstanding,
                   started, lastOutcome, targets>>

\* analyze_with_auto_fallback is entered for invocation idx: the first call is
\* sent, or analyze_with_gemini_direct refuses a model that is not initialised
MMInvoke ==
    /\ pc = "mm_invoke"
    /\ LET model_info == MODELS_get(model_id)
           pos == IF model_info.provider = "GEMINI_DIRECT" THEN "primary"
                  ELSE "direct"
       IN  IF pos = "primary" /\ ApiModel(model_info) \notin gemini_models
           THEN /\ pc' = "raised"
                /\ raised' = "Exception"
                /\ cascadeLog' = <<>>
                /\ UNCHANGED <<cascadePos, outstanding, started, synthCalls,
                               targets>>
           ELSE /\ pc' = "mm_wait"
                /\ cascadePos' = pos
                /\ cascadeLog' = <<[pos |-> pos,
                                    to |-> CascadeTarget(pos, model_info),
                                    kind |-> "pending"]>>
                /\ outstanding' = outstanding \cup
                                    {MMCall(pos, model_info, idx)}
                /\ started' = IF idx <= TotalStages THEN Append(started, idx)
                              ELSE started
                /\ synthCalls' = IF idx > TotalStages THEN synthCalls + 1
                                 ELSE synthCalls
                /\ targets' = targets \cup {CascadeTarget(pos, model_info)}
                /\ raised' = raised
    /\ MODELS' = MODELS_after_get(MODELS, model_id)
    /\ UNCHANGED <<cfgVars, advVars, mm_results, provider_used, mm_summary,
                   used_provider, idx, lastOutcome, synthOutcome>>

\* the outstanding call returns its text: analyze_with_auto_fallback returns,
\* comprehensive_analysis stores the result and goes on
MMRespondOk ==
    /\ pc = "mm_wait"
    /\ LET model_info == MODELS_get(model_id)
           label == ProviderLabel(cascadePos, model_info)
       IN  /\ cascadeLog' = [cascadeLog EXCEPT ![Len(cascadeLog)].kind = "ok"]
           /\ outstanding' = {}
           /\ used_provider' = label
           /\ IF idx <= TotalStages
              THEN /\ mm_results' = Append(mm_results,
                            [stage |-> StageNames[idx],
                             response |-> Response(StageNames[idx])])
                   /\ provider_used' = IF provider_used = None THEN label
                                       ELSE provider_used
                   /\ lastOutcome' = [lastOutcome EXCEPT ![idx] = "ok"]
                   /\ idx' = idx + 1
                   /\ pc' = "mm_invoke"
                   /\ UNCHANGED <<mm_summary, synthOutcome>>
              ELSE /\ mm_summary' = Response("executive_summary")
                   /\ synthOutcome' = "ok"
                   /\ pc' = "done"
                   /\ UNCHANGED <<mm_results, provider_used, lastOutcome, idx>>
    /\ UNCHANGED <<MODELS, cfgVars, advVars, cascadePos, started, raised, synthCalls,
                   targets>>

\* the outstanding call raises an exception whose text is message m: the next
\* member of the cascade is called, or the exception leaves the request
MMRespondErr ==
    /\ pc = "mm_wait"
    /\ \E m \in MsgIds :
        LET model_info == MODELS_get(model_id)
            kind == IF cascadePos \in {"primary", "fallback"}
                    THEN GeminiErrorKind(ErrorText(m))
                    ELSE OpenRouterErrorKind(ErrorText(m))
            nxt == CascadeNext(cascadePos, kind, model_info, gemini_models,
                               openrouter_api_key)
            logged == [cascadeLog EXCEPT ![Len(cascadeLog)].kind = kind]
        IN  IF nxt \in {"fallback", "openrouter"}
            THEN /\ cascadePos' = nxt
                 /\ cascadeLog' = Append(logged,
                        [pos |-> nxt, to |-> CascadeTarget(nxt, model_info),
                         kind |-> "pending"])
                 /\ outstanding' = {MMCall(nxt, model_info, idx)}
                 /\ synthCalls' = IF idx > TotalStages THEN synthCalls + 1
                                  ELSE synthCalls
                 /\ targets' = targets \cup {CascadeTarget(nxt, model_info)}
                 /\ UNCHANGED <<pc, raised, lastOutcome, synthOutcome>>
            ELSE /\ cascadeLog' = logged
                 /\ outstanding' = {}
                 /\ pc' = "raised"
                 /\ raised' = IF nxt = "exhausted" THEN "Exhausted"
                              ELSE "Exception"
                 /\ lastOutcome' = IF idx <= TotalStages
                                   THEN [lastOutcome EXCEPT ![idx] = "err"]
                                   ELSE lastOutcome
                 /\ synthOutcome' = IF idx > TotalStages THEN "err"
                                    ELSE synthOutcome
                 /\ UNCHANGED <<cascadePos, synthCalls, targets>>
    /\ UNCHANGED <<MODELS, cfgVars, advVars, mm_results, provider_used, mm_summary,
                   used_provider, idx, started>>

-----------------------------------------------------------------------------
(* DXF parsing: DXFParser (backend/app/cad/parser) over EntityExtractor     *)
(* (backend/app/cad/entity_extractor).                                      *)
(*                                                                          *)
(* A coordinate is an integer that counts tenths of a drawing unit, so that *)
(* the factors 0.6 and 1.5 of the text boxes stay exact.  A normalised      *)
(* coordinate is the fraction <<numerator, denominator>> the division is    *)
(* applied to; a denominator of 0 is a division by zero.                    *)

Tenths(n) == 10 * n

\* an attribute the entity does not have (hasattr(...) is False)
Absent == <<>>

hasattr(entity, attr) == entity[attr] # Absent

T_TEXT == <<"T", "E", "X", "T">>
T_MTEXT == <<"M", "T", "E", "X", "T">>
T_DIMENSION == <<"D", "I", "M", "E", "N", "S", "I", "O", "N">>
T_LINE == <<"L", "I", "N", "E">>
T_LWPOLYLINE == <<"L", "W", "P", "O", "L", "Y", "L", "I", "N", "E">>
T_CIRCLE == <<"C", "I", "R", "C", "L", "E">>
T_ARC == <<"A", "R", "C">>

\* entities a modelspace may hold; a field is Absent where the DXF entity
\* has no such attribute
DxfEntity(type, layer, insert, start, end, center, location, defpoint, text, height, radius) ==
    [dxftype |-> type, layer |-> layer, insert |-> insert, start |-> start,
     end |-> end, center |-> center, location |-> location,
     defpoint |-> defpoint, text |-> text, height |-> height,
     radius |-> radius]

Pt(x, y) == <<Tenths(x), Tenths(y)>>

EntityPool ==
    { DxfEntity(T_TEXT, Absent, Pt(0, 0), Absent, Absent, Absent, Absent,
                Absent, <<"A", "B">>, <<Tenths(1)>>, Absent),
      DxfEntity(T_TEXT, <<"N">>, Absent, Absent, Absent, Absent, Absent,
                Absent, <<"C">>, <<Tenths(1)>>, Absent),
      DxfEntity(T_MTEXT, <<"N">>, Pt(2, 2), Absent, Absent, Absent, Absent,
                Absent, <<"A", "\n", "B", "C">>, Absent, Absent),
      DxfEntity(T_DIMENSION, <<"D">>, Absent, Absent, Absent, Absent, Absent,
                Pt(0, 0), Absent, Absent, Absent),
      DxfEntity(T_LINE, <<"W">>, Absent, Pt(0, 0), Pt(4, 2), Absent, Absent,
                Absent, Absent, Absent, Absent),
      DxfEntity(T_LINE, <<"W">>, Absent, Pt(1, 1), Pt(1, 1), Absent, Absent,
                Absent, Absent, Absent, Absent),
      DxfEntity(T_CIRCLE, <<"W">>, Absent, Absent, Absent, Pt(2, 1), Absent,
                Absent, Absent, Absent, <<Tenths(1)>>),
      DxfEntity(T_ARC, <<"W">>, Absent, Absent, Absent, Pt(3, 3), Absent,
                Absent, Absent, Absent, <<Tenths(1)>>),
      DxfEntity(T_LWPOLYLINE, <<"W">>, Absent, Absent, Absent, Absent, Absent,
                Absent, Absent, Absent, Absent),
      DxfEntity(<<"I", "N", "S", "E", "R", "T">>, <<"0">>, Pt(0 - 1, 5), Absent, Absent, Absent, Absent,
                Absent, Absent, Absent, Absent),
      DxfEntity(<<"P", "O", "I", "N", "T">>, <<"0">>, Absent, Absent, Absent, Absent, Pt(5, 5),
                Absent, Absent, Absent, Absent) }

\* _get_units: units_map.get(insunits, "unknown")
units_map ==
       0 :> <<"u", "n", "i", "t", "l", "e", "s", "s">>
    @@ 1 :> <<"i", "n", "c", "h", "e", "s">>
    @@ 2 :> <<"f", "e", "e", "t">>
    @@ 4 :> <<"m", "i", "l", "l", "i", "m", "e", "t", "e", "r", "s">>
    @@ 5 :> <<"c", "e", "n", "t", "i", "m", "e", "t", "e", "r", "s">>
    @@ 6 :> <<"m", "e", "t", "e", "r", "s">>
    @@ 8 :> <<"m", "i", "l", "e", "s">>
    @@ 9 :> <<"m", "i", "c", "r", "o", "i", "n", "c", "h", "e", "s">>
    @@ 10 :> <<"m", "i", "l", "s">>
    @@ 11 :> <<"y", "a", "r", "d", "s">>
    @@ 12 :> <<"a", "n", "g", "s", "t", "r", "o", "m", "s">>
    @@ 13 :> <<"n", "a", "n", "o", "m", "e", "t", "e", "r", "s">>
    @@ 14 :> <<"m", "i", "c", "r", "o", "n", "s">>

S_unknown == <<"u", "n", "k", "n", "o", "w", "n">>

_get_units(insunits) ==
    IF insunits \in DOMAIN units_map THEN units_map[insunits] ELSE S_unknown


\* min(...) and max(...) over the values met in a loop
MinOf(S) == CHOOSE m \in S : \A n \in S : m <= n
MaxOf(S) == CHOOSE m \in S : \A n \in S : m >= n

\* ExtentPoints that stops at the first attribute the entity has
ExtentPoints_FirstOnly(entity) ==
    LET order == <<"insert", "start", "end", "center", "location">>
        has == {i \in 1..Len(order) : hasattr(entity, order[i])}
    IN  IF has = {} THEN {}
        ELSE {entity[order[CHOOSE i \in has : \A j \in has : i <= j]]}

\* the points one entity contributes to the extents: insert, or else each of
\* start, end, center, location that it has
ExtentPoints(entity) ==
    IF hasattr(entity, "insert")
    THEN {entity.insert}
    ELSE {entity[attr] : attr \in {a \in {"start", "end", "center", "location"} :
                                       hasattr(entity, a)}}

\* EntityExtractor._calculate_extents
_calculate_extents(msp) ==
    LET points == UNION {ExtentPoints(msp[i]) : i \in 1..Len(msp)}
        found_entity == points # {}
    IN  IF ~found_entity
        THEN [min |-> <<0, 0>>, max |-> <<Tenths(100), Tenths(100)>>]
        ELSE [min |-> <<MinOf({p[1] : p \in points}),
                        MinOf({p[2] : p \in points})>>,
              max |-> <<MaxOf({p[1] : p \in points}),
                        MaxOf({p[2] : p \in points})>>]

\* _extract_entities: max - min if max > min else 1
AxisSpan_NoGuard(lo, hi) == hi - lo

AxisSpan(lo, hi) == IF hi > lo THEN hi - lo ELSE Tenths(1)

\* EntityExtractor._normalize_bbox: each component is a division
_normalize_bbox(bbox_world, min_x, min_y, width, height) ==
    << <<bbox_world[1] - min_x, width>>,
       <<bbox_world[2] - min_y, height>>,
       <<bbox_world[3] - min_x, width>>,
       <<bbox_world[4] - min_y, height>> >>

\* str(n) of a natural number
RECURSIVE DigitsOf(_)
DigitsOf(n) ==
    IF n < 10 THEN <<Digits[n + 1]>>
    ELSE DigitsOf(n \div 10) \o <<Digits[(n % 10) + 1]>>

\* format(n, "06d")
RECURSIVE ZeroPad(_, _)
ZeroPad(ds, w) ==
    IF Len(ds) >= w THEN ds ELSE ZeroPad(<<"0">> \o ds, w)

\* f"ent_{self.entity_counter:06d}"
EntityIdOf(counter) ==
    <<"e", "n", "t", "_">> \o ZeroPad(DigitsOf(counter), 6)

\* text.split('\n'): the pieces between the newlines
RECURSIVE SplitLines(_)
SplitLines(text) ==
    IF \E i \in 1..Len(text) : text[i] = "\n"
    THEN LET i == CHOOSE k \in 1..Len(text) :
                      /\ text[k] = "\n"
                      /\ \A j \in 1..(k - 1) : text[j] # "\n"
         IN  <<SubSeq(text, 1, i - 1)>>
                 \o SplitLines(SubSeq(text, i + 1, Len(text)))
    ELSE <<text>>

\* an Optional[str]: Absent is None, Some(s) is the string s
Some(s) == <<s>>

\* the exception an attribute access raises on an attribute the entity lacks
Raises == [raised |-> TRUE]
IsRaise(r) == "raised" \in DOMAIN r

\* EntityExtractor._extract_text
_extract_text(entity, entity_id, layer, min_x, min_y, width, height) ==
    IF ~hasattr(entity, "text") \/ ~hasattr(entity, "insert")
           \/ ~hasattr(entity, "height")
    THEN Raises
    ELSE
    LET text == entity.text
        insert == entity.insert
        height_val == entity.height[1]
        \* len(text) * height_val * 0.6
        text_width == (Len(text) * height_val * 6) \div 10
        bbox_world == <<insert[1], insert[2], insert[1] + text_width,
                        insert[2] + height_val>>
    IN  [id |-> entity_id, type |-> T_TEXT, raw_text |-> Some(text),
         layer |-> layer, block |-> None, bbox_world |-> bbox_world,
         bbox_norm |-> _normalize_bbox(bbox_world, min_x, min_y, width, height),
         extra |-> [height |-> height_val]]

\* EntityExtractor._extract_mtext
_extract_mtext(entity, entity_id, layer, min_x, min_y, width, height) ==
    IF ~hasattr(entity, "insert")
    THEN Raises
    ELSE
    LET text == entity.text
        insert == entity.insert
        text_height == IF hasattr(entity, "height") THEN entity.height[1]
                       ELSE Tenths(1)
        lines == SplitLines(text)
        \* max(len(line) for line in lines) * text_height * 0.6
        text_width == (MaxOf({Len(lines[i]) : i \in 1..Len(lines)})
                          * text_height * 6) \div 10
        \* len(lines) * text_height * 1.5
        text_total_height == (Len(lines) * text_height * 15) \div 10
        bbox_world == <<insert[1], insert[2], insert[1] + text_width,
                        insert[2] + text_total_height>>
    IN  [id |-> entity_id, type |-> T_MTEXT, raw_text |-> Some(text),
         layer |-> layer, block |-> None, bbox_world |-> bbox_world,
         bbox_norm |-> _normalize_bbox(bbox_world, min_x, min_y, width, height),
         extra |-> [char_height |-> text_height, line_count |-> Len(lines)]]

\* EntityExtractor._extract_dimension
_extract_dimension(entity, entity_id, layer, min_x, min_y, width, height) ==
    LET text == IF hasattr(entity, "text") THEN entity.text ELSE <<>>
        defpoint == IF hasattr(entity, "defpoint") THEN entity.defpoint
                    ELSE <<0, 0>>
        bbox_world == <<defpoint[1], defpoint[2], defpoint[1] + Tenths(50),
                        defpoint[2] + Tenths(10)>>
    IN  [id |-> entity_id, type |-> T_DIMENSION, raw_text |-> Some(text),
         layer |-> layer, block |-> None, bbox_world |-> bbox_world,
         bbox_norm |-> _normalize_bbox(bbox_world, min_x, min_y, width, height),
         extra |-> [dim_type |-> "UNKNOWN"]]

\* EntityExtractor._extract_geometric: the box of a LINE or a CIRCLE, and
\* [0, 0, 0, 0] for the other types and when an attribute is missing
_extract_geometric(entity, entity_id, layer, entity_type, min_x, min_y, width, height) ==
    LET bbox_world ==
            IF entity_type = T_LINE /\ hasattr(entity, "start")
                   /\ hasattr(entity, "end")
            THEN <<MinOf({entity.start[1], entity.end[1]}),
                   MinOf({entity.start[2], entity.end[2]}),
                   MaxOf({entity.start[1], entity.end[1]}),
                   MaxOf({entity.start[2], entity.end[2]})>>
            ELSE IF entity_type = T_CIRCLE /\ hasattr(entity, "center")
                        /\ hasattr(entity, "radius")
            THEN <<entity.center[1] - entity.radius[1],
                   entity.center[2] - entity.radius[1],
                   entity.center[1] + entity.radius[1],
                   entity.center[2] + entity.radius[1]>>
            ELSE <<0, 0, 0, 0>>
    IN  [id |-> entity_id, type |-> entity_type, raw_text |-> Absent,
         layer |-> layer, block |-> None, bbox_world |-> bbox_world,
         bbox_norm |-> _normalize_bbox(bbox_world, min_x, min_y, width, height),
         extra |-> <<>>]

GeometricTypes ==
    {T_LINE, <<"P", "O", "L", "Y", "L", "I", "N", "E">>, T_LWPOLYLINE,
     T_CIRCLE, T_ARC, <<"E", "L", "L", "I", "P", "S", "E">>}

\* EntityExtractor._extract_single_entity, counter is self.entity_counter after its increment
_extract_single_entity(entity, counter, min_x, min_y, width, height) ==
    LET entity_id == EntityIdOf(counter)
        entity_type == entity.dxftype
        layer == IF hasattr(entity, "layer") THEN entity.layer ELSE <<"0">>
    IN  IF entity_type = T_TEXT
        THEN _extract_text(entity, entity_id, layer, min_x, min_y, width, height)
        ELSE IF entity_type = T_MTEXT
        THEN _extract_mtext(entity, entity_id, layer, min_x, min_y, width, height)
        ELSE IF entity_type = T_DIMENSION
        THEN _extract_dimension(entity, entity_id, layer, min_x, min_y, width,
                                height)
        ELSE IF entity_type \in GeometricTypes
        THEN _extract_geometric(entity, entity_id, layer, entity_type,
                                min_x, min_y, width, height)
        ELSE [id |-> entity_id, type |-> entity_type, layer |-> layer,
              block |-> None, bbox_world |-> <<0, 0, 0, 0>>,
              bbox_norm |-> <<<<0, 1>>, <<0, 1>>, <<0, 1>>, <<0, 1>>>>,
              extra |-> <<>>]

\* ResetCounter that goes on from the count of the previous extraction
ResetCounter_Keep(counter) == counter

\* _extract_entities: self.entity_counter = 0
ResetCounter(counter) == 0

\* _extract_entities whose handler leaves the loop at the first entity that
\* raises
_extract_entities_StopAtRaise(msp, extents) ==
    LET min_x == extents.min[1]
        min_y == extents.min[2]
        width == AxisSpan(min_x, extents.max[1])
        height == AxisSpan(min_y, extents.max[2])
        extracted == [i \in 1..Len(msp) |->
                         _extract_single_entity(msp[i], i, min_x, min_y,
                                                width, height)]
        stop == {i \in 1..Len(msp) : IsRaise(extracted[i])}
    IN  IF stop = {} THEN extracted
        ELSE SubSeq(extracted, 1, MinOf(stop) - 1)

\* EntityExtractor._extract_entities: the entities whose extraction did not
\* raise, in modelspace order; the counter starts at 0 and advances for
\* every entity
_extract_entities(msp, extents) ==
    LET min_x == extents.min[1]
        min_y == extents.min[2]
        max_x == extents.max[1]
        max_y == extents.max[2]
        width == AxisSpan(min_x, max_x)
        height == AxisSpan(min_y, max_y)
        extracted == [i \in 1..Len(msp) |->
                         _extract_single_entity(
                             msp[i], ResetCounter(entity_counter) + i,
                             min_x, min_y, width, height)]
    IN  SelectSeq(extracted, LAMBDA r : ~IsRaise(r))

\* _calculate_statistics: the counter an entity increments
StatKey_NoElse(entity) ==
    LET entity_type == Lower(entity.type)
    IN  IF entity_type = Lower(T_TEXT) THEN "text_entities"
        ELSE IF entity_type = Lower(T_MTEXT) THEN "mtext_entities"
        ELSE IF entity_type = Lower(T_DIMENSION) THEN "dimension_entities"
        ELSE IF entity_type = Lower(T_LINE) \/ entity_type = <<"p", "o", "l", "y", "l", "i", "n", "e">>
                    \/ entity_type = Lower(T_LWPOLYLINE)
        THEN "line_entities"
        ELSE IF entity_type = Lower(T_CIRCLE) THEN "circle_entities"
        ELSE IF entity_type = Lower(T_ARC) THEN "arc_entities"
        ELSE "none"

StatKey(entity) ==
    LET entity_type == Lower(entity.type)
    IN  IF entity_type = <<"t", "e", "x", "t">> THEN "text_entities"
        ELSE IF entity_type = <<"m", "t", "e", "x", "t">> THEN "mtext_entities"
        ELSE IF entity_type = <<"d", "i", "m", "e", "n", "s", "i", "o", "n">> THEN "dimension_entities"
        ELSE IF entity_type = <<"l", "i", "n", "e">> \/ entity_type = <<"p", "o", "l", "y", "l", "i", "n", "e">>
                    \/ entity_type = <<"l", "w", "p", "o", "l", "y", "l", "i", "n", "e">>
        THEN "line_entities"
        ELSE IF entity_type = <<"c", "i", "r", "c", "l", "e">> THEN "circle_entities"
        ELSE IF entity_type = <<"a", "r", "c">> THEN "arc_entities"
        ELSE "other_entities"

\* the value of one counter after the loop over the entities
StatCount(entities, key) ==
    Cardinality({i \in 1..Len(entities) : StatKey(entities[i]) = key})

\* EntityExtractor._calculate_statistics
_calculate_statistics(entities) ==
    [total_entities |-> Len(entities),
     text_entities |-> StatCount(entities, "text_entities"),
     mtext_entities |-> StatCount(entities, "mtext_entities"),
     dimension_entities |-> StatCount(entities, "dimension_entities"),
     line_entities |-> StatCount(entities, "line_entities"),
     circle_entities |-> StatCount(entities, "circle_entities"),
     arc_entities |-> StatCount(entities, "arc_entities"),
     other_entities |-> StatCount(entities, "other_entities")]

\* EntityExtractor._extract_metadata
_extract_metadata(doc) ==
    [dxf_version |-> doc.dxfversion, units |-> _get_units(doc.insunits),
     scale |-> 1]

\* extract_all with a handler that returns the data of an empty drawing
extract_all_NoRaise(file) ==
    LET extents == _calculate_extents(file.msp)
        entities == _extract_entities(file.msp, extents)
    IN  [metadata |-> _extract_metadata(file), extents |-> extents,
         layers |-> file.layers, entities |-> entities,
         statistics |-> _calculate_statistics(entities)]

\* EntityExtractor.extract_all: the extracted data, or the exception of
\* ezdxf.readfile re-raised
extract_all(file) ==
    IF ~file.readable
    THEN [raised |-> TRUE, error |-> file.error]
    ELSE LET msp == file.msp
             extents == _calculate_extents(msp)
             entities == _extract_entities(msp, extents)
         IN  [metadata |-> _extract_metadata(file), extents |-> extents,
              layers |-> file.layers, entities |-> entities,
              statistics |-> _calculate_statistics(entities)]

\* DXFParser._build_manifest (parsed_at, the time of the call, is left out)
_build_manifest(file_id, src, extracted_data, status) ==
    [file_id |-> file_id, sheet_id |-> <<"M", "o", "d", "e", "l">>, source_file |-> src,
     conversion_status |-> status,
     units |-> extracted_data.metadata.units,
     scale |-> extracted_data.metadata.scale,
     dxf_version |-> extracted_data.metadata.dxf_version,
     extents |-> extracted_data.extents, layers |-> extracted_data.layers,
     entities |-> extracted_data.entities,
     statistics |-> extracted_data.statistics]

\* DXFParser._build_fallback_manifest
_build_fallback_manifest(file_id, src, error) ==
    [file_id |-> file_id, sheet_id |-> <<"M", "o", "d", "e", "l">>, source_file |-> src,
     conversion_status |-> "conversion_failed", error_message |-> error,
     units |-> S_unknown, scale |-> 1, dxf_version |-> S_unknown,
     extents |-> [min |-> <<0, 0>>, max |-> <<0, 0>>], layers |-> <<>>,
     entities |-> <<>>,
     statistics |-> [total_entities |-> 0, text_entities |-> 0,
                     dimension_entities |-> 0]]

\* sep.join(parts)
RECURSIVE Join(_, _)
Join(parts, sep) ==
    IF parts = <<>> THEN <<>>
    ELSE IF Len(parts) = 1 THEN parts[1]
    ELSE parts[1] \o sep \o Join(Tail(parts), sep)

\* the keys of a dict filled in the order of s: each member once, at its
\* first place
RECURSIVE FirstSeen(_)
FirstSeen(s) ==
    IF s = <<>> THEN <<>>
    ELSE LET init == FirstSeen(SubSeq(s, 1, Len(s) - 1))
         IN  IF \E i \in 1..Len(init) : init[i] = s[Len(s)]
             THEN init ELSE Append(init, s[Len(s)])

\* entity.get("raw_text") is truthy: the key is there, not None, not ""
HasRawText(entity) ==
    /\ "raw_text" \in DOMAIN entity
    /\ entity.raw_text # Absent
    /\ entity.raw_text[1] # <<>>

\* dict.get(key, default) of a statistics dict
StatGet(stats, key, default) ==
    IF key \in DOMAIN stats THEN stats[key] ELSE default

\* f"[{entity_type}] {text}"
EntityLine_TypeOnly(entity) == <<"[">> \o entity.type \o <<"]">>

EntityLine(entity) ==
    <<"[">> \o entity.type \o <<"]", " ">> \o entity.raw_text[1]

\* DXFParser.extract_text_for_rag
extract_text_for_rag(m) ==
    IF m.conversion_status = "conversion_failed"
    THEN <<"C", "A", "D", " ", "f", "i", "l", "e", " ", "c", "o", "n", "v", "e", "r", "s", "i", "o", "n", " ", "f", "a", "i", "l", "e", "d", ":", " ">>
             \o (IF "error_message" \in DOMAIN m THEN m.error_message
                 ELSE <<"U", "n", "k", "n", "o", "w", "n", " ", "e", "r", "r", "o", "r">>)
    ELSE
    LET with_text == SelectSeq(m.entities, HasRawText)
        layer_keys == FirstSeen([i \in 1..Len(with_text) |-> with_text[i].layer])
        \* layer_texts[layer]
        TextsOf(layer) ==
            LET on_layer == SelectSeq(with_text, LAMBDA e : e.layer = layer)
            IN  [i \in 1..Len(on_layer) |-> EntityLine(on_layer[i])]
        \* f"Layer '{layer}':", the texts, ""
        Block(layer) == <<<<"L", "a", "y", "e", "r", " ", "'">> \o layer \o <<"'", ":">>>> \o TextsOf(layer) \o << <<>> >>
        RECURSIVE Blocks(_)
        Blocks(keys) == IF keys = <<>> THEN <<>>
                        ELSE Block(Head(keys)) \o Blocks(Tail(keys))
        stats == m.statistics
        text_parts ==
            << <<"C", "A", "D", " ", "D", "r", "a", "w", "i", "n", "g", ":", " ">> \o m.source_file,
               <<"U", "n", "i", "t", "s", ":", " ">> \o m.units,
               <<"L", "a", "y", "e", "r", "s", ":", " ">> \o Join(m.layers, <<",", " ">>),
               <<>> >>
            \o Blocks(layer_keys)
            \o << <<"T", "o", "t", "a", "l", " ", "e", "n", "t", "i", "t", "i", "e", "s", ":", " ">> \o DigitsOf(stats.total_entities),
                  <<"T", "e", "x", "t", " ", "e", "n", "t", "i", "t", "i", "e", "s", ":", " ">>
                      \o DigitsOf(stats.text_entities
                                      + StatGet(stats, "mtext_entities", 0)),
                  <<"D", "i", "m", "e", "n", "s", "i", "o", "n", " ", "e", "n", "t", "i", "t", "i", "e", "s", ":", " ">>
                      \o DigitsOf(stats.dimension_entities) >>
    IN  Join(text_parts, <<"\n">>)


\* the manifest of a parser that has not parsed, the text of one that has
\* not formatted
NoManifest == [conversion_status |-> "none"]
NoText == <<"none">>

\* the file at dxf_path before any is given
NoFile ==
    [readable |-> FALSE, error |-> <<>>, dxfversion |-> <<>>, insunits |-> 0,
     layers |-> <<>>, msp |-> <<>>]

\* most entities of a modelspace
MaxEntities == 2

\* a modelspace whose second entity, a TEXT without insert, raises in
\* _extract_text between two entities that are extracted
SkippedInTheMiddle ==
    << DxfEntity(T_LINE, <<"W">>, Absent, Pt(0, 0), Pt(4, 2), Absent, Absent,
                 Absent, Absent, Absent, Absent),
       DxfEntity(T_TEXT, <<"N">>, Absent, Absent, Absent, Absent, Absent,
                 Absent, <<"C">>, <<Tenths(1)>>, Absent),
       DxfEntity(T_CIRCLE, <<"W">>, Absent, Absent, Absent, Pt(2, 1), Absent,
                 Absent, Absent, Absent, <<Tenths(1)>>) >>

\* the files: those ezdxf.readfile raises on, with the str(e) of its
\* exception, and those it reads, with up to MaxEntities entities or with
\* the three of SkippedInTheMiddle
DxfFiles ==
    {[readable |-> FALSE, error |-> e, dxfversion |-> <<>>, insunits |-> 0,
      layers |-> <<>>, msp |-> <<>>] : e \in {<<"n", "o", "t", " ", "a", " ", "D", "X", "F", " ", "f", "i", "l", "e">>, <<"a", ".", "d", "x", "f", ":", " ", "n", "o", " ", "s", "u", "c", "h", " ", "f", "i", "l", "e">>}}
    \cup
    {[readable |-> TRUE, error |-> <<>>, dxfversion |-> <<"A", "C", "1", "0", "2", "7">>,
      insunits |-> u, layers |-> <<<<"0">>, <<"W">>>>, msp |-> m] :
         u \in {4, 7},
         m \in UNION {[1..n -> EntityPool] : n \in 0..MaxEntities}
                   \cup {SkippedInTheMiddle}}

SourceFiles == {<<"a", ".", "d", "x", "f">>, <<"p", "l", "a", "n", ".", "d", "x", "f">>}

\* DXFParser.parse(dxf_path, file_id, source_file), _save_manifest included:
\* an exception of extract_all or of the first save is caught, and the
\* fallback manifest is built and saved outside any handler; the parser, and
\* with it self.extractor, can be asked to parse the file once more
Parse ==
    /\ parser_pc \in {"ready", "parsed"}
    /\ LET file_id == <<"f", "1">>
           extracted_data == extract_all(dxf)
           completed == ~IsRaise(extracted_data)
           \* str(e): of the exception of open() in _save_manifest, or of
           \* the one extract_all raised
           error == IF completed THEN <<"p", "e", "r", "m", "i", "s", "s", "i", "o", "n", " ", "d", "e", "n", "i", "e", "d">>
                    ELSE extracted_data.error
       IN  /\ entity_counter' =
                 IF completed
                 THEN ResetCounter(entity_counter) + Len(dxf.msp)
                 ELSE entity_counter
           /\ IF completed /\ writable
              THEN /\ manifest' = _build_manifest(file_id, source_file,
                                                  extracted_data, "success")
                   /\ saved' = manifest'
                   /\ parser_pc' = IF parser_pc = "ready" THEN "parsed"
                                   ELSE "reparsed"
              ELSE IF writable
              THEN /\ manifest' = _build_fallback_manifest(file_id,
                                                           source_file, error)
                   /\ saved' = manifest'
                   /\ parser_pc' = IF parser_pc = "ready" THEN "parsed"
                                   ELSE "reparsed"
              ELSE /\ parser_pc' = "raised"
                   /\ UNCHANGED <<manifest, saved>>
    /\ UNCHANGED <<dxf, source_file, writable, rag_text>>
    /\ UNCHANGED <<orchVars, cvVars>>

\* DXFParser.extract_text_for_rag(manifest) on the manifest parse returned
ExtractTextForRag ==
    /\ parser_pc = "parsed"
    /\ rag_text = NoText
    /\ rag_text' = extract_text_for_rag(manifest)
    /\ UNCHANGED <<dxf, source_file, writable, manifest, saved, parser_pc,
                   entity_counter>>
    /\ UNCHANGED <<orchVars, cvVars>>


\* no file has been given to the parser
ParserIdle ==
    /\ dxf = NoFile
    /\ source_file = <<>>
    /\ writable = TRUE
    /\ manifest = NoManifest
    /\ saved = NoManifest
    /\ parser_pc = "idle"
    /\ rag_text = NoText
    /\ entity_counter = 0


-----------------------------------------------------------------------------
(* Raster feature extraction: CADFeatureExtractor (backend/app/cad/         *)
(* cv_extractor).  What OpenCV and Tesseract find in the image is an input; *)
(* what the extractor computes from it is modelled.                         *)

\* tan(10 degrees) = Tan10 / TanScale, to five places; no segment with
\* integer ends comes that close to the 10 degree line
Tan10 == 17633
TanScale == 100000

Abs(n) == IF n < 0 THEN 0 - n ELSE n

\* angle = abs(arctan2(y2 - y1, x2 - x1) * 180 / pi) of a segment
\* <<x1, y1, x2, y2>>: angle < 10 or angle > 170 (arctan2(0, 0) is 0)
AngleBelow10OrAbove170(line) ==
    LET dx == line[3] - line[1]
        dy == line[4] - line[2]
    IN  Abs(dy) * TanScale < Tan10 * Abs(dx) \/ (dx = 0 /\ dy = 0)

\* 80 < angle < 100
AngleBetween80And100(line) ==
    LET dx == line[3] - line[1]
        dy == line[4] - line[2]
    IN  dy # 0 /\ Abs(dx) * TanScale < Tan10 * Abs(dy)

\* the classification with an elif angle < 90 in place of the else
LineClass_NoElse(line) ==
    IF AngleBelow10OrAbove170(line) THEN "horizontal"
    ELSE IF AngleBetween80And100(line) THEN "vertical"
    ELSE IF line[3] - line[1] > 0 THEN "diagonal"
    ELSE "none"

\* _detect_lines: the counter a line increments
LineClass(line) ==
    IF AngleBelow10OrAbove170(line) THEN "horizontal"
    ELSE IF AngleBetween80And100(line) THEN "vertical"
    ELSE "diagonal"

LineCount(lines, class) ==
    Cardinality({i \in 1..Len(lines) : LineClass(lines[i]) = class})

\* cv2.HoughLinesP found no line: it returns None, never an empty array
NoLines == <<>>

ZeroLines ==
    [total_lines |-> 0, horizontal |-> 0, vertical |-> 0, diagonal |-> 0]

\* CADFeatureExtractor._detect_lines; raises: Canny or HoughLinesP raised
_detect_lines(lines, raises) ==
    IF raises THEN ZeroLines
    ELSE IF lines = NoLines THEN ZeroLines
    ELSE [total_lines |-> Len(lines),
          horizontal |-> LineCount(lines, "horizontal"),
          vertical |-> LineCount(lines, "vertical"),
          diagonal |-> LineCount(lines, "diagonal")]

\* A score counts ten-thousandths: edge_density is given in thousandths of
\* the pixels and avg_gradient in thousandths.
ScoreOf(n) == 10000 * n

\* the score without the min(10, ...)
ComplexityScore_NoClamp(edge_density, avg_gradient) ==
    edge_density * 1000 + avg_gradient

\* min(10, edge_density * 100 + avg_gradient / 10)
ComplexityScore(edge_density, avg_gradient) ==
    LET s == edge_density * 1000 + avg_gradient
    IN  IF ScoreOf(10) < s THEN ScoreOf(10) ELSE s

\* round(score, 2), in hundredths: to the nearest, a tie to the even one
Round2(score) ==
    LET q == score \div 100
        r == score % 100
    IN  IF r < 50 THEN q
        ELSE IF r > 50 THEN q + 1
        ELSE IF q % 2 = 0 THEN q ELSE q + 1

\* CADFeatureExtractor._classify_complexity
_classify_complexity(score) ==
    IF score < ScoreOf(2) THEN "very_simple"
    ELSE IF score < ScoreOf(4) THEN "simple"
    ELSE IF score < ScoreOf(6) THEN "moderate"
    ELSE IF score < ScoreOf(8) THEN "complex"
    ELSE "very_complex"

ZeroComplexity_NoLevel == [complexity_score |-> 0]

ZeroComplexity == [complexity_score |-> 0, complexity_level |-> "unknown"]

\* CADFeatureExtractor._calculate_complexity
_calculate_complexity(edge_density, avg_gradient, raises) ==
    IF raises THEN ZeroComplexity
    ELSE LET complexity_score == ComplexityScore(edge_density, avg_gradient)
         IN  [edge_density |-> edge_density, avg_gradient |-> avg_gradient,
              complexity_score |-> Round2(complexity_score),
              complexity_level |-> _classify_complexity(complexity_score)]

ZeroText ==
    [all_text |-> <<>>, text_items |-> <<>>, text_count |-> 0,
     dimensions_found |-> <<>>, technical_terms |-> <<>>]

\* CADFeatureExtractor._extract_text; ocr: the items of confidence above 30
\* pytesseract reports, with the dimension patterns and the technical terms
\* found in their text
_extract_text_cv(ocr, raises) ==
    IF raises THEN ZeroText
    ELSE [all_text |-> Join(ocr.texts, <<" ">>), text_items |-> ocr.texts,
          text_count |-> Len(ocr.texts),
          dimensions_found |-> ocr.dimensions,
          technical_terms |-> ocr.terms]

ZeroShapes ==
    [circles |-> 0, rectangles |-> 0, polygons |-> 0, circle_list |-> <<>>,
     rectangle_list |-> <<>>]

\* CADFeatureExtractor._detect_shapes; found: the circles, rectangles and
\* polygons HoughCircles and findContours report
_detect_shapes(found, raises) ==
    IF raises THEN ZeroShapes
    ELSE [circles |-> Len(found.circle_list),
          rectangles |-> Len(found.rectangle_list),
          polygons |-> found.polygons, circle_list |-> found.circle_list,
          rectangle_list |-> found.rectangle_list]

ZeroColors == [unique_colors |-> 0, is_grayscale |-> TRUE]

\* CADFeatureExtractor._analyze_colors
_analyze_colors(colors, raises) ==
    IF raises THEN ZeroColors
    ELSE [unique_colors |-> colors.unique_colors,
          is_grayscale |-> colors.is_grayscale,
          color_count |-> IF colors.is_grayscale THEN "monochrome"
                          ELSE "color"]

ZeroDimensions == [dimension_markers_estimated |-> 0, has_dimensions |-> FALSE]

\* CADFeatureExtractor._extract_dimensions; lines: what HoughLinesP finds
\* with minLineLength 30
_extract_dimensions(lines, raises) ==
    IF raises THEN ZeroDimensions
    ELSE LET dimension_markers == IF lines # NoLines THEN Len(lines) \div 10
                                  ELSE 0
         IN  [dimension_markers_estimated |-> dimension_markers,
              has_dimensions |-> dimension_markers > 0]

\* the keys _generate_summary reads
SummaryReads ==
    [text |-> {"text_count", "dimensions_found", "technical_terms"},
     shapes |-> {"circles", "rectangles"},
     lines |-> {"total_lines"},
     complexity |-> {"complexity_level"}]

\* CADFeatureExtractor._generate_summary: the summary, or the KeyError of a
\* key that a sub-result lacks
_generate_summary(f) ==
    IF \E d \in DOMAIN SummaryReads : ~(SummaryReads[d] \subseteq DOMAIN f[d])
    THEN Raises
    ELSE [total_text_items |-> f.text.text_count,
          total_shapes |-> f.shapes.circles + f.shapes.rectangles,
          total_lines |-> f.lines.total_lines,
          complexity |-> f.complexity.complexity_level,
          has_dimensions |-> Len(f.text.dimensions_found) > 0,
          has_technical_terms |-> Len(f.text.technical_terms) > 0]

\* CADFeatureExtractor._empty_features
_empty_features(image_path, error) ==
    [image_path |-> image_path, error |-> error,
     text |-> [all_text |-> <<>>, text_items |-> <<>>, text_count |-> 0],
     shapes |-> [circles |-> 0, rectangles |-> 0],
     lines |-> [total_lines |-> 0],
     complexity |-> [complexity_score |-> 0],
     summary |-> <<>>]

Detectors ==
    {"text", "shapes", "lines", "complexity", "color_analysis", "dimensions"}

\* CADFeatureExtractor.extract_features; raising: the sub-detectors in which
\* OpenCV or Tesseract raises
extract_features(img, raising) ==
    IF ~img.loadable
    THEN _empty_features(img.image_path, "Failed to load image")
    ELSE LET f == [image_path |-> img.image_path,
                   image_size |-> img.image_size,
                   text |-> _extract_text_cv(img.ocr, "text" \in raising),
                   shapes |-> _detect_shapes(img.found, "shapes" \in raising),
                   lines |-> _detect_lines(img.hough, "lines" \in raising),
                   complexity |->
                       _calculate_complexity(img.edge_density,
                                             img.avg_gradient,
                                             "complexity" \in raising),
                   color_analysis |->
                       _analyze_colors(img.colors,
                                       "color_analysis" \in raising),
                   dimensions |->
                       _extract_dimensions(img.hough30,
                                           "dimensions" \in raising)]
             s == _generate_summary(f)
         IN  IF IsRaise(s)
             THEN _empty_features(img.image_path, "KeyError")
             ELSE [image_path |-> f.image_path, image_size |-> f.image_size,
                   text |-> f.text, shapes |-> f.shapes, lines |-> f.lines,
                   complexity |-> f.complexity,
                   color_analysis |-> f.color_analysis,
                   dimensions |-> f.dimensions, summary |-> s]

\* the features of an extractor that has not run
NoFeatures == [image_path |-> "none"]

\* most segments HoughLinesP reports in _detect_lines
MaxLines == 2

\* segments <<x1, y1, x2, y2>> at 0, 5.7, 11.3, 90, 84.3, 135 and 174.3
\* degrees
Segments ==
    {<<5, 5, 15, 5>>, <<5, 5, 15, 6>>, <<5, 5, 15, 7>>, <<5, 5, 5, 15>>,
     <<5, 15, 6, 5>>, <<5, 5, 0, 10>>, <<15, 5, 5, 6>>}

\* what the detectors other than the line and complexity ones find in a
\* blank sheet and in a drawing
Scenes ==
    {[image_size |-> [width |-> 64, height |-> 48],
      ocr |-> [texts |-> <<>>, dimensions |-> <<>>, terms |-> <<>>],
      found |-> [circle_list |-> <<>>, rectangle_list |-> <<>>,
                 polygons |-> 0],
      colors |-> [unique_colors |-> 1, is_grayscale |-> TRUE],
      hough30 |-> NoLines],
     [image_size |-> [width |-> 640, height |-> 480],
      ocr |-> [texts |-> <<<<"R", "1", "5">>, <<"I", "S", "O">>>>,
               dimensions |-> <<<<"R", "1", "5">>>>,
               terms |-> <<<<"I", "S", "O">>>>],
      found |-> [circle_list |-> <<<<10, 10, 5>>, <<30, 10, 5>>>>,
                 rectangle_list |-> <<<<0, 0, 20, 10>>>>, polygons |-> 1],
      colors |-> [unique_colors |-> 3, is_grayscale |-> FALSE],
      hough30 |-> [i \in 1..12 |-> <<0, i, 40, i>>]]}

\* the images: the segments HoughLinesP reports (None, or up to MaxLines of
\* them), the edge pixels per thousand pixels and the mean gradient in
\* thousandths; and the files that cannot be loaded
Images ==
    {[loadable |-> l, image_path |-> "drawing.png",
      image_size |-> s.image_size, ocr |-> s.ocr, found |-> s.found,
      colors |-> s.colors, hough30 |-> s.hough30, hough |-> h,
      edge_density |-> e, avg_gradient |-> g] :
         l \in {TRUE}, s \in Scenes,
         h \in {NoLines} \cup UNION {[1..n -> Segments] : n \in 1..MaxLines},
         e \in {0, 15, 1000}, g \in {0, 4960, 25000, 65000}}
    \cup
    {[loadable |-> FALSE, image_path |-> "missing.png",
      image_size |-> s.image_size, ocr |-> s.ocr, found |-> s.found,
      colors |-> s.colors, hough30 |-> s.hough30, hough |-> NoLines,
      edge_density |-> 0, avg_gradient |-> 0] : s \in Scenes}

\* the sub-detectors that raise in one run: none, one, or all
FailureSets == {{}} \cup {{d} : d \in Detectors} \cup {Detectors}

\* CADFeatureExtractor.extract_features(image_path)
ExtractFeatures ==
    /\ cv_pc = "ready"
    /\ features' = extract_features(image, failing)
    /\ cv_pc' = "done"
    /\ UNCHANGED <<image, failing>>
    /\ UNCHANGED <<orchVars, parserVars>>

\* no image has been given to the extractor
CvIdle ==
    /\ image = [loadable |-> FALSE]
    /\ failing = {}
    /\ features = NoFeatures
    /\ cv_pc = "idle"

\* no hybrid analysis has been asked for
HybridIdle ==
    /\ include_vision = FALSE
    /\ png_content = <<>>
    /\ vision_model_id = None
    /\ text_model_ids = <<>>
    /\ vision_analysis = Absent
    /\ text_analyses = <<>>
    /\ synthesis = <<>>
    /\ hy_result = Absent
    /\ trail = <<>>

-----------------------------------------------------------------------------
(* HybridCADAnalyzer (backend/app/cad/hybrid_analyzer): the features of     *)
(* CADFeatureExtractor are put into a prompt for one model of               *)
(* MultiModelCADAnalyzer, or for a vision model and several text models.    *)
(* An Optional[bytes] is Absent or Some(bytes).                             *)

\* d.get(key, default) of a dict
get(d, key, default) == IF key \in DOMAIN d THEN d[key] ELSE default

\* str.upper() of a complexity level
upper(level) ==
    CASE level = "very_simple" -> "VERY_SIMPLE"
      [] level = "simple" -> "SIMPLE"
      [] level = "moderate" -> "MODERATE"
      [] level = "complex" -> "COMPLEX"
      [] level = "very_complex" -> "VERY_COMPLEX"
      [] level = "unknown" -> "UNKNOWN"

\* s[:n]
Slice(s, n) == SubSeq(s, 1, IF Len(s) < n THEN Len(s) ELSE n)

\* CADFeatureExtractor.format_for_llm: the values the prompt text shows, in
\* the order of the template
format_for_llm(f) ==
    LET text_data == get(f, "text", <<>>)
        shapes == get(f, "shapes", <<>>)
        lines == get(f, "lines", <<>>)
        complexity == get(f, "complexity", <<>>)
        image_size == get(f, "image_size", <<>>)
        dimensions_found == get(text_data, "dimensions_found", <<>>)
        technical_terms == get(text_data, "technical_terms", <<>>)
    IN  [size |-> <<get(image_size, "width", None),
                    get(image_size, "height", None)>>,
         complexity |-> upper(get(complexity, "complexity_level", "unknown")),
         score |-> get(complexity, "complexity_score", 0),
         circles |-> get(shapes, "circles", 0),
         rectangles |-> get(shapes, "rectangles", 0),
         lines |-> <<get(lines, "total_lines", 0), get(lines, "horizontal", 0),
                     get(lines, "vertical", 0), get(lines, "diagonal", 0)>>,
         text_count |-> get(text_data, "text_count", 0),
         all_text |-> Slice(get(text_data, "all_text",
                                <<"No text detected">>), 1000),
         dimensions |-> IF dimensions_found # <<>>
                        THEN Join(dimensions_found, <<",", " ">>)
                        ELSE <<"No dimensions detected">>,
         terms |-> IF technical_terms # <<>>
                   THEN Join(technical_terms, <<",", " ">>)
                   ELSE <<"No technical terms detected">>,
         markers |-> IF get(get(f, "dimensions", <<>>), "has_dimensions",
                            FALSE)
                     THEN "Yes" ELSE "No",
         color_mode |-> get(get(f, "color_analysis", <<>>), "color_count",
                            "unknown")]

\* use_vision = include_vision and 'vision' in model_info['capabilities']
UseVision(include, model_info) ==
    include /\ "vision" \in model_info.capabilities

\* the image_bytes given to analyze_with_auto_fallback: f.read() of the file
\* on the vision branch, None on the other
ImageBytes(use_vision, content) ==
    IF use_vision THEN Some(content) ELSE Absent

\* `if image_bytes:` of analyze_with_gemini_direct and analyze_with_openrouter
Truthy(image_bytes) == image_bytes # Absent /\ image_bytes[1] # <<>>

\* vision_prompt and text_prompt: the CV prompt and the questions asked
HybridPrompt(cv_prompt, use_vision) ==
    [cv |-> cv_prompt, ask |-> IF use_vision THEN "image and features"
                               ELSE "features only"]

\* the provider call a cascade member issues for a hybrid analysis
HybridCall(pos, model_info, image_bytes, prompt) ==
    [to |-> CascadeTarget(pos, model_info), pass |-> prompt,
     image |-> Truthy(image_bytes)]

\* HybridCADAnalyzer._format_combined
_format_combined(cv_features, llm_response, model_name) ==
    LET s == get(cv_features, "summary", <<>>)
    IN  [model |-> model_name,
         shapes |-> get(s, "total_shapes", 0),
         lines |-> get(s, "total_lines", 0),
         complexity |-> upper(get(s, "complexity", "unknown")),
         analysis |-> llm_response]

\* the dict analyze_with_cv_assistance returns
CvaResult(model_info, provider, use_vision, cv_features, response) ==
    [model_used |-> model_info.name, model_id |-> model_info.id,
     provider_used |-> provider,
     method |-> IF use_vision THEN "vision+cv" ELSE "cv_only",
     cv_features |-> cv_features, llm_analysis |-> response,
     combined_analysis |-> _format_combined(cv_features, response,
                                            model_info.name)]

\* an exception: its class as the other analyzers name it, and its str(e)
Error(kind, text) == [kind |-> kind, error |-> text]
IsError(outcome) == "kind" \in DOMAIN outcome

\* the exception that leaves analyze_with_auto_fallback when the call of
\* the cascade member pos failed with message m and nothing follows
CascadeError(pos, nxt, m) ==
    IF nxt = "exhausted"
    THEN Error("Exhausted",
               <<"All Gemini sources exhausted (quota exceeded)">>)
    ELSE IF pos = "direct"
    THEN Error("Exception", <<"OpenRouter failed", ErrorText(m)>>)
    ELSE Error("Exception", <<"Gemini API error", ErrorText(m)>>)

\* results["vision_analysis"] after the vision analysis ended with outcome
RecordVision(outcome) ==
    IF IsError(outcome) THEN [error |-> outcome.error] ELSE outcome

\* RecordText that files the analyses that returned only
RecordText_DropFailed(ta, id, outcome) ==
    IF IsError(outcome) THEN ta ELSE Append(ta, outcome)

\* results["text_analyses"].append(...) after the analysis of the text
\* model id ended with outcome
RecordText(ta, id, outcome) ==
    IF IsError(outcome)
    THEN Append(ta, [model_id |-> id, error |-> outcome.error])
    ELSE Append(ta, outcome)

\* HybridCADAnalyzer._synthesize_analyses: the parts joined by newlines
_synthesize_analyses(cv_features, va, ta) ==
    LET cv == get(get(cv_features, "summary", <<>>), "total_shapes", 0)
        ln == get(get(cv_features, "summary", <<>>), "total_lines", 0)
        text_count == Cardinality({i \in 1..Len(ta) :
                                      "llm_analysis" \in DOMAIN ta[i]})
    IN  <<<<"MULTI-MODEL SYNTHESIS">>, <<"CV Detection", cv, ln>>>>
        \o (IF va # Absent /\ "llm_analysis" \in DOMAIN va
            THEN <<<<"Vision Model", Slice(va.llm_analysis, 200)>>>>
            ELSE <<>>)
        \o (IF text_count > 0 THEN <<<<"Text Models", text_count>>>>
            ELSE <<>>)

\* the error texts a provider answers a hybrid analysis with: a quota error
\* and another one
HybridMsgIds == {1, 5}

\* what the analyzers of the other modes hold, and the inputs of a request
hybridRest == <<attempt, analyses, errors, summary, synthInput, started, calls,
               nwaits, lastWait, lastOutcome, synthCalls, mm_results,
               provider_used, mm_summary, synthOutcome, retry_count, result,
               parserVars, image, failing, cv_pc, analyzer, png_exists,
               png_content, gemini_models, openrouter_api_key,
               vision_model_id, text_model_ids>>

\* comprehensive_hybrid_analysis is entered: the file is looked for, the
\* features are extracted once and the vision analysis is begun
HybridStart ==
    /\ pc = "start"
    /\ analyzer = "HYB"
    /\ IF ~png_exists
       THEN /\ pc' = "raised"
            /\ raised' = "FileNotFoundError"
            /\ UNCHANGED <<features, idx, model_id, include_vision>>
       ELSE /\ features' = extract_features(image, failing)
            /\ idx' = 0
            /\ model_id' = vision_model_id
            /\ include_vision' = TRUE
            /\ pc' = "cva_enter"
            /\ raised' = raised
    /\ UNCHANGED <<hybridRest, MODELS, cascadePos, cascadeLog, outstanding,
                   targets, used_provider, vision_analysis, text_analyses,
                   synthesis, hy_result, trail>>

\* analyze_with_cv_assistance ends with outcome, the dict it returns or the
\* exception it raises, after the provider calls of log: a direct caller
\* has the outcome; comprehensive_hybrid_analysis files it, goes on with the
\* next text model and after the last one adds the synthesis
CvaEnds(outcome, log) ==
    /\ cascadeLog' = log
    /\ trail' = Append(trail, [model |-> model_id, log |-> log])
    /\ IF analyzer = "CVA"
       THEN /\ IF IsError(outcome)
               THEN /\ pc' = "raised"
                    /\ raised' = outcome.kind
                    /\ hy_result' = hy_result
               ELSE /\ pc' = "done"
                    /\ raised' = raised
                    /\ hy_result' = outcome
            /\ UNCHANGED <<idx, model_id, include_vision, vision_analysis,
                           text_analyses, synthesis>>
       ELSE LET va == IF idx = 0 THEN RecordVision(outcome)
                      ELSE vision_analysis
                ta == IF idx = 0 THEN text_analyses
                      ELSE RecordText(text_analyses, model_id, outcome)
            IN  /\ vision_analysis' = va
                /\ text_analyses' = ta
                /\ IF idx < Len(text_model_ids)
                   THEN /\ idx' = idx + 1
                        /\ model_id' = text_model_ids[idx + 1]
                        /\ include_vision' = FALSE
                        /\ pc' = "cva_enter"
                        /\ synthesis' = synthesis
                   ELSE /\ pc' = "done"
                        /\ synthesis' = _synthesize_analyses(features, va, ta)
                        /\ UNCHANGED <<idx, model_id, include_vision>>
                /\ UNCHANGED <<raised, hy_result>>

\* analyze_with_cv_assistance(png_path, model_id, include_vision) up to the
\* first provider call of analyze_with_auto_fallback, or to the exception
\* that is raised before any call
CvaEnter ==
    /\ \/ pc = "cva_enter"
       \/ pc = "start" /\ analyzer = "CVA"
    /\ MODELS' = MODELS_after_get(MODELS, model_id)
    /\ LET model_info == MODELS_get(model_id)
           cv_features == extract_features(image, failing)
           use_vision == UseVision(include_vision, model_info)
           image_bytes == ImageBytes(use_vision, png_content)
           prompt == HybridPrompt(format_for_llm(cv_features), use_vision)
           pos == IF model_info.provider = "GEMINI_DIRECT" THEN "primary"
                  ELSE "direct"
           call == HybridCall(pos, model_info, image_bytes, prompt)
       IN  IF ~png_exists
           THEN /\ CvaEnds(Error("FileNotFoundError", <<"PNG not found">>),
                           <<>>)
                /\ UNCHANGED <<features, cascadePos, outstanding, targets>>
           ELSE IF model_info = NoModelInfo
           THEN /\ CvaEnds(Error("ValueError", <<"Unknown model", model_id>>),
                           <<>>)
                /\ UNCHANGED <<features, cascadePos, outstanding, targets>>
           ELSE IF pos = "primary" /\ ApiModel(model_info) \notin gemini_models
           THEN /\ CvaEnds(Error("Exception",
                                 <<"Gemini model", ApiModel(model_info),
                                   "not initialized">>), <<>>)
                /\ features' = cv_features
                /\ UNCHANGED <<cascadePos, outstanding, targets>>
           ELSE /\ features' = cv_features
                /\ pc' = "cva_wait"
                /\ cascadePos' = pos
                /\ cascadeLog' = <<[pos |-> pos, to |-> call.to,
                                    kind |-> "pending", image |-> call.image]>>
                /\ outstanding' = {call}
                /\ targets' = targets \cup {call.to}
                /\ UNCHANGED <<raised, idx, model_id, include_vision,
                               vision_analysis, text_analyses, synthesis,
                               hy_result, trail>>
    /\ UNCHANGED <<hybridRest, used_provider>>

\* the outstanding call returns its text: analyze_with_auto_fallback returns
\* it with the provider label and analyze_with_cv_assistance returns its dict
CvaRespondOk ==
    /\ pc = "cva_wait"
    /\ LET model_info == MODELS_get(model_id)
           use_vision == UseVision(include_vision, model_info)
           provider == ProviderLabel(cascadePos, model_info)
           prompt == HybridPrompt(format_for_llm(features), use_vision)
       IN  /\ used_provider' = provider
           /\ CvaEnds(CvaResult(model_info, provider, use_vision, features,
                                Response(prompt.ask)),
                      [cascadeLog EXCEPT ![Len(cascadeLog)].kind = "ok"])
    /\ outstanding' = {}
    /\ UNCHANGED <<hybridRest, MODELS, features, cascadePos, targets>>

\* the outstanding call raises an exception whose text is message m: the
\* next member of the cascade is called with the same image and prompt, or
\* the exception leaves analyze_with_cv_assistance
CvaRespondErr ==
    /\ pc = "cva_wait"
    /\ \E m \in HybridMsgIds :
        LET model_info == MODELS_get(model_id)
            use_vision == UseVision(include_vision, model_info)
            image_bytes == ImageBytes(use_vision, png_content)
            prompt == HybridPrompt(format_for_llm(features), use_vision)
            kind == IF cascadePos \in {"primary", "fallback"}
                    THEN GeminiErrorKind(ErrorText(m))
                    ELSE OpenRouterErrorKind(ErrorText(m))
            nxt == CascadeNext(cascadePos, kind, model_info, gemini_models,
                               openrouter_api_key)
            logged == [cascadeLog EXCEPT ![Len(cascadeLog)].kind = kind]
            call == HybridCall(nxt, model_info, image_bytes, prompt)
        IN  IF nxt \in {"fallback", "openrouter"}
            THEN /\ cascadePos' = nxt
                 /\ cascadeLog' = Append(logged,
                        [pos |-> nxt, to |-> call.to, kind |-> "pending",
                         image |-> call.image])
                 /\ outstanding' = {call}
                 /\ targets' = targets \cup {call.to}
                 /\ UNCHANGED <<pc, raised, idx, model_id, include_vision,
                                vision_analysis, text_analyses, synthesis,
                                hy_result, trail>>
            ELSE /\ CvaEnds(CascadeError(cascadePos, nxt, m), logged)
                 /\ outstanding' = {}
                 /\ UNCHANGED <<cascadePos, targets>>
    /\ UNCHANGED <<hybridRest, MODELS, features, used_provider>>

-----------------------------------------------------------------------------
\* model ids a request may name: every registered model and an unknown one
RequestModelIds == ModelIds \cup {"no-such-model"}

Init ==
    /\ analyzer \in {"ADV", "MM", "PASS"}
    /\ retry_count \in IF analyzer = "PASS" THEN 0..MaxRetryCount
                       ELSE {RetryCount}
    /\ result = NoResult
    /\ png_exists \in IF analyzer = "PASS" THEN {TRUE} ELSE BOOLEAN
    /\ IF analyzer = "MM"
       THEN /\ model_id \in RequestModelIds
            /\ gemini_models \in {{}, InitialisedGemini}
            /\ openrouter_api_key \in BOOLEAN
       ELSE /\ model_id = AdvModelId
            /\ gemini_models = {}
            /\ openrouter_api_key = FALSE
    /\ pc = "start"
    /\ idx = 1
    /\ attempt = 0
    /\ analyses = <<>>
    /\ errors = <<>>
    /\ summary = EmptySummary
    /\ synthInput = <<>>
    /\ outstanding = {}
    /\ started = <<>>
    /\ calls = 0
    /\ nwaits = 0
    /\ lastWait = <<>>
    /\ lastOutcome = [i \in 1..TotalPasses |-> "none"]
    /\ raised = "none"
    /\ synthCalls = 0
    /\ cascadePos = "none"
    /\ cascadeLog = <<>>
    /\ mm_results = <<>>
    /\ provider_used = None
    /\ mm_summary = None
    /\ used_provider = None
    /\ targets = {}
    /\ synthOutcome = "none"
    /\ MODELS = ModelTable
    /\ HybridIdle
    /\ ParserIdle
    /\ CvIdle

Next ==
    \/ AdvStart
    \/ PassStart
    \/ AdvIssueCall
    \/ AdvRespondOk
    \/ AdvRespondErr
    \/ AdvBackoffDone
    \/ AdvPaceDone
    \/ AdvSynthesis
    \/ AdvSynthRespondOk
    \/ AdvSynthRespondErr
    \/ MMStart
    \/ MMInvoke
    \/ MMRespondOk
    \/ MMRespondErr

Spec == Init /\ [][Next]_vars


\* the scheduler runs the request whenever it can take a step
LiveSpec == Spec /\ WF_vars(Next)

\* no analysis request is being served
OrchIdle ==
    /\ analyzer = "none"
    /\ retry_count = RetryCount
    /\ result = NoResult
    /\ png_exists = FALSE
    /\ model_id = AdvModelId
    /\ gemini_models = {}
    /\ openrouter_api_key = FALSE
    /\ pc = "idle"
    /\ idx = 1
    /\ attempt = 0
    /\ analyses = <<>>
    /\ errors = <<>>
    /\ summary = EmptySummary
    /\ synthInput = <<>>
    /\ outstanding = {}
    /\ started = <<>>
    /\ calls = 0
    /\ nwaits = 0
    /\ lastWait = <<>>
    /\ lastOutcome = [i \in 1..TotalPasses |-> "none"]
    /\ raised = "none"
    /\ synthCalls = 0
    /\ cascadePos = "none"
    /\ cascadeLog = <<>>
    /\ mm_results = <<>>
    /\ provider_used = None
    /\ mm_summary = None
    /\ used_provider = None
    /\ targets = {}
    /\ synthOutcome = "none"
    /\ MODELS = ModelTable
    /\ HybridIdle

\* a request to the parser: a file, its name, and whether the manifest
\* directory can be written
ParserInit ==
    /\ OrchIdle
    /\ CvIdle
    /\ dxf \in DxfFiles
    /\ source_file \in SourceFiles
    /\ writable \in BOOLEAN
    /\ manifest = NoManifest
    /\ saved = NoManifest
    /\ parser_pc = "ready"
    /\ rag_text = NoText
    /\ entity_counter = 0

ParserNext ==
    \/ Parse
    \/ ExtractTextForRag

ParserSpec == ParserInit /\ [][ParserNext]_vars


\* a request to the feature extractor: an image and the sub-detectors that
\* raise on it
CvInit ==
    /\ OrchIdle
    /\ ParserIdle
    /\ image \in Images
    /\ failing \in FailureSets
    /\ features = NoFeatures
    /\ cv_pc = "ready"

CvSpec == CvInit /\ [][ExtractFeatures]_vars


\* most text models a hybrid request names
MaxTextModels == 2

\* the drawing as the hybrid analyzer's extractor sees it
HybridDrawing ==
    CHOOSE i \in Images :
        /\ i.loadable /\ i.image_size.width = 640 /\ i.hough = NoLines
        /\ i.edge_density = 15 /\ i.avg_gradient = 4960

\* the files at png_path: none, a PNG of the drawing, and a file of zero
\* bytes, which cv2.imread cannot load
HybridFiles ==
    {[exists |-> FALSE, content |-> <<>>,
      image |-> [HybridDrawing EXCEPT !.loadable = FALSE]],
     [exists |-> TRUE, content |-> <<137, 80, 78, 71>>,
      image |-> HybridDrawing],
     [exists |-> TRUE, content |-> <<>>,
      image |-> [HybridDrawing EXCEPT !.loadable = FALSE]]}

\* the vision models a request names: the default one, a GEMINI_DIRECT one
\* and a model without the vision capability
HybridVisionIds ==
    {"nvidia/nemotron-nano-12b-v2-vl:free", "gemini-2.5-flash",
     "meta-llama/llama-3.3-70b-instruct:free"}

\* the text models a request names
HybridTextIds ==
    {"meta-llama/llama-3.3-70b-instruct:free", "gemini-2.5-flash-lite",
     "no-such-model"}

\* a request to the hybrid analyzer: analyze_with_cv_assistance (CVA) or
\* comprehensive_hybrid_analysis (HYB)
HybridInit ==
    /\ analyzer \in {"CVA", "HYB"}
    /\ \E f \in HybridFiles :
          /\ png_exists = f.exists
          /\ png_content = f.content
          /\ image = f.image
    /\ gemini_models \in {{}, InitialisedGemini}
    /\ openrouter_api_key \in BOOLEAN
    /\ IF analyzer = "CVA"
       THEN /\ model_id \in HybridVisionIds \cup HybridTextIds
            /\ include_vision \in BOOLEAN
            /\ vision_model_id = None
            /\ text_model_ids = <<>>
       ELSE /\ model_id = None
            /\ include_vision = FALSE
            /\ vision_model_id \in HybridVisionIds
            /\ text_model_ids \in
                 UNION {[1..n -> HybridTextIds] : n \in 0..MaxTextModels}
    /\ vision_analysis = Absent
    /\ text_analyses = <<>>
    /\ synthesis = <<>>
    /\ hy_result = Absent
    /\ trail = <<>>
    /\ MODELS = ModelTable
    /\ retry_count = RetryCount
    /\ result = NoResult
    /\ pc = "start"
    /\ idx = 0
    /\ attempt = 0
    /\ analyses = <<>>
    /\ errors = <<>>
    /\ summary = EmptySummary
    /\ synthInput = <<>>
    /\ outstanding = {}
    /\ started = <<>>
    /\ calls = 0
    /\ nwaits = 0
    /\ lastWait = <<>>
    /\ lastOutcome = [i \in 1..TotalPasses |-> "none"]
    /\ raised = "none"
    /\ synthCalls = 0
    /\ cascadePos = "none"
    /\ cascadeLog = <<>>
    /\ mm_results = <<>>
    /\ provider_used = None
    /\ mm_summary = None
    /\ used_provider = None
    /\ targets = {}
    /\ synthOutcome = "none"
    /\ failing = {}
    /\ features = NoFeatures
    /\ cv_pc = "idle"
    /\ ParserIdle

HybridNext ==
    \/ HybridStart
    \/ CvaEnter
    \/ CvaRespondOk
    \/ CvaRespondErr

HybridSpec == HybridInit /\ [][HybridNext]_vars


\* the requests to MultiModelCADAnalyzer and to HybridCADAnalyzer
OrchestratorSpec ==
    (Init \/ HybridInit) /\ [][Next \/ HybridNext]_vars


-----------------------------------------------------------------------------
(* Properties                                                               *)

Terminal == pc \in {"done", "raised"}

Range(f) == {f[i] : i \in DOMAIN f}

IsPrefix(a, b) == Len(a) <= Len(b) /\ a = SubSeq(b, 1, Len(a))

\* a <= b, a = b for durations
DurLe(a, b) == a[1] * b[2] <= b[1] * a[2]
DurEq(a, b) == a[1] * b[2] = b[1] * a[2]

\* the k-th smallest member of a set of numbers
KthOf(S, k) == CHOOSE i \in S : Cardinality({j \in S : j < i}) = k - 1

PassesOk == {i \in 1..TotalPasses : lastOutcome[i] = "ok"}
PassesErr == {i \in 1..TotalPasses : lastOutcome[i] = "err"}

\* the request is a multi-pass analysis (comprehensive_analysis)
MultiPass == analyzer \in {"ADV", "MM"}

\* a request whose image exists, whose model is registered with vision, and
\* whose analyzer has both providers configured
WellFormed ==
    /\ MultiPass
    /\ png_exists
    /\ analyzer = "MM" =>
          /\ MMPrecondition(png_exists, model_id) = "ok"
          /\ gemini_models = InitialisedGemini
          /\ openrouter_api_key

\* C1: analyze_with_auto_fallback for a GEMINI_DIRECT model that declares a
\* fallback_model calls, in this order and each at most once, the primary
\* model, the declared fallback model and (when a key is configured) the
\* OpenRouter fallback; a call is made only after all earlier ones failed; the
\* exhausted error is raised only after the whole cascade failed; a success
\* ends the cascade and the provider returned names the member that answered.
C1_CascadeOrder ==
    LET info == MODELS_get(model_id)
        full == <<info.api_model, info.fallback_model>> \o
                    (IF openrouter_api_key THEN <<OrFallback>> ELSE <<>>)
        called == [i \in 1..Len(cascadeLog) |-> cascadeLog[i].to]
        n == Len(cascadeLog)
    IN  (/\ analyzer = "MM"
         /\ info.provider = "GEMINI_DIRECT"
         /\ info.fallback_model # None) =>
            /\ IsPrefix(called, full)
            /\ \A i \in 1..(n - 1) : cascadeLog[i].kind \in {"quota", "error"}
            /\ n >= 2 => cascadeLog[1].kind = "quota"
            /\ raised = "Exhausted" =>
                    /\ called = full
                    /\ cascadeLog[n].kind \in {"quota", "error"}
            /\ (n >= 1 /\ cascadeLog[n].kind = "ok") =>
                    used_provider =
                        CASE n = 1 -> <<"Google Studio", "gemini-2.5-flash">>
                          [] n = 2 -> <<"Google Studio",
                                        "gemini-2.5-flash-lite", "(fallback)">>
                          [] n = 3 -> <<"OpenRouter Gemini (fallback)">>

\* the cascade of gemini-2.5-flash was exhausted after three calls, the two
\* Gemini calls having failed on quota
C1_Witness ==
    /\ analyzer = "MM"
    /\ model_id = "gemini-2.5-flash"
    /\ raised = "Exhausted"
    /\ Len(cascadeLog) = 3
    /\ cascadeLog[1].kind = "quota"
    /\ cascadeLog[2].kind = "quota"

\* a pass whose retries or cascade ended in failure
ExhaustedPass(i) ==
    \/ /\ analyzer = "ADV"
       /\ \E k \in 1..Len(errors) : errors[k].pass = PassNames[i]
    \/ /\ analyzer = "MM"
       /\ raised = "Exhausted"
       /\ idx = i

\* C2: in a multi-pass analysis the exhaustion of one pass is an error of that
\* pass only: the request is not aborted and, when it ends, every later pass
\* has been executed.
C2_ExhaustionIsPassLocal ==
    \A i \in 1..TotalPasses :
        ExhaustedPass(i) =>
            /\ raised = "none"
            /\ Terminal => \A j \in (i + 1)..TotalPasses : j \in Range(started)

\* C3: when comprehensive_analysis of AdvancedCADVisualAnalyzer returns, the
\* passes whose provider calls all failed (F) have exactly one entry each in
\* errors and no others are there, every other pass has exactly one entry in
\* analyses, and if a pass succeeded the synthesis input consists of the texts
\* of the successful passes only, in pass order.
C3_PartialFailureReport ==
    (analyzer = "ADV" /\ pc = "done") =>
        /\ PassesOk \cup PassesErr = 1..TotalPasses
        /\ Len(analyses) = Cardinality(PassesOk)
        /\ \A i \in PassesOk :
              Cardinality({k \in 1..Len(analyses) :
                              analyses[k].pass = PassNames[i]}) = 1
        /\ Len(errors) = Cardinality(PassesErr)
        /\ \A i \in PassesErr :
              Cardinality({k \in 1..Len(errors) :
                              errors[k].pass = PassNames[i]}) = 1
        /\ PassesOk # {} =>
              /\ summary # EmptySummary
              /\ synthInput =
                    [k \in 1..Cardinality(PassesOk) |->
                        <<PassNames[KthOf(PassesOk, k)],
                          Response(PassNames[KthOf(PassesOk, k)])>>]

\* five passes of which the third failed, with a successful synthesis
C3_Witness ==
    /\ analyzer = "ADV"
    /\ pc = "done"
    /\ lastOutcome = <<"ok", "ok", "err", "ok", "ok">>
    /\ Len(errors) = 1
    /\ summary.synthesis_success = TRUE

\* C4: a well-formed multi-pass request never raises: it ends by returning a
\* report, and when every pass failed the report has no successful pass and
\* lists every pass as failed.
C4_AlwaysReturnsReport ==
    (WellFormed /\ Terminal) =>
        /\ pc = "done"
        /\ raised = "none"
        /\ PassesOk = {} =>
              /\ analyses = <<>>
              /\ mm_results = <<>>
              /\ {errors[k].pass : k \in 1..Len(errors)} = Range(PassNames)

\* C5: while analyze_single_pass sleeps before a retry, the wait is min(d, 60)
\* if the error text carried "retry in d" (45 for "retry in 45", 60 for "retry
\* in 9999"), the default 10 if it carried no duration, and never above 60.
C5_BackoffWait ==
    pc = "adv_backoff" =>
        LET m == lastWait[1]
            w == lastWait[2]
            d == Messages[m].hint
        IN  /\ d # NoMatch =>
                  IF DurLe(d, <<60, 1>>) THEN DurEq(w, d) ELSE DurEq(w, <<60, 1>>)
            /\ d = NoMatch => DurEq(w, <<10, 1>>)
            /\ DurLe(w, <<60, 1>>)
            /\ m = 1 => w = <<45, 1>>
            /\ m = 2 => w = <<60, 1>>

\* the pass sleeps after "429 retry in 9999"
C5_Witness ==
    /\ pc = "adv_backoff"
    /\ lastWait[1] = 2
    /\ nwaits = 1

\* C6: analyze_single_pass issues at most retry_count provider calls for a
\* pass, and every pass that is begun ends with its result recorded, whatever
\* the provider answers.
C6_BoundedRetries ==
    /\ [](calls <= retry_count)
    /\ (pc = "adv_call") ~>
            (/\ pc \in {"adv_pace", "adv_synth", "done"}
             /\ result # NoResult
             /\ result.pass_name = PassNames[idx])

\* a pass failed after retry_count provider calls
C6_Witness ==
    /\ analyzer = "PASS"
    /\ retry_count = MaxRetryCount
    /\ calls = retry_count
    /\ pc = "done"
    /\ result.success = FALSE

\* passes recorded as failed with a rate-limit error text
RateLimitFailures ==
    {k \in 1..Len(errors) : IsRateLimit(ErrorText(errors[k].error))}

AvailableCascade(info) ==
    <<ApiModel(info)>> \o
    (IF FallbackAvailable(info, gemini_models)
     THEN <<info.fallback_model>> ELSE <<>>) \o
    (IF openrouter_api_key THEN <<OrFallback>> ELSE <<>>)

C8_SynthesisIffSuccess ==
    (MultiPass /\ Terminal) =>
        /\ synthCalls > 0 <=> PassesOk # {}
        /\ PassesOk = {} => (summary = EmptySummary /\ mm_summary = None)

\* the synthesis / summary call was made and failed on every provider the
\* analyzer can reach
SynthesisExhausted ==
    /\ synthOutcome = "err"
    /\ analyzer = "MM" => raised = "Exhausted"

\* C9: when the synthesis call fails on every provider the analysis does not
\* raise: the report is returned with the per-pass results intact and a
\* synthesis marked unsuccessful that carries a placeholder text.
C9_SynthesisFailureDegrades ==
    (MultiPass /\ Terminal /\ SynthesisExhausted) =>
        /\ pc = "done"
        /\ raised = "none"
        /\ Len(analyses) + Len(mm_results) = Cardinality(PassesOk)
        /\ analyzer = "ADV" =>
              /\ summary.synthesis_success = FALSE
              /\ summary.executive_summary = "Synthesis generation failed"
        /\ analyzer = "MM" => mm_summary # None

\* index of the pass or stage a provider call belongs to
CallIndex(c) ==
    IF \E i \in 1..TotalPasses : c.pass \in {PassNames[i], StageNames[i]}
    THEN CHOOSE i \in 1..TotalPasses : c.pass \in {PassNames[i], StageNames[i]}
    ELSE TotalPasses + 1

\* the result of pass j is in the report
Recorded(j) ==
    IF analyzer = "ADV"
    THEN \/ \E k \in 1..Len(analyses) : analyses[k].pass = PassNames[j]
         \/ \E k \in 1..Len(errors) : errors[k].pass = PassNames[j]
    ELSE \E k \in 1..Len(mm_results) : mm_results[k].stage = StageNames[j]

\* C10: the passes of a request begin in their configured order, a provider
\* call of a pass is outstanding only when the results of all earlier passes
\* are in the report, and at most one provider call is outstanding.
C10_SequentialPasses ==
    /\ Cardinality(outstanding) <= 1
    /\ analyzer \in {"ADV", "MM"} =>
          /\ \A k \in 1..Len(started) : started[k] = k
          /\ \A c \in outstanding :
                /\ CallIndex(c) = IF pc = "adv_synth_wait" THEN TotalPasses + 1
                                  ELSE idx
                /\ \A j \in 1..TotalPasses : j < CallIndex(c) => Recorded(j)

\* the call of the third pass is outstanding after one failure and one success
C10_Witness ==
    /\ analyzer = "ADV"
    /\ \E c \in outstanding : c.pass = "components"
    /\ Len(errors) = 1
    /\ Len(analyses) = 1

-----------------------------------------------------------------------------
(* Properties of the DXF parser                                             *)

Parsed == parser_pc = "parsed"

\* the sum of the counters of a statistics dict other than total_entities
RECURSIVE SumCounters(_, _)
SumCounters(stats, keys) ==
    IF keys = {} THEN 0
    ELSE LET k == CHOOSE x \in keys : TRUE
         IN  stats[k] + SumCounters(stats, keys \ {k})

CategoryKeys ==
    {"text_entities", "mtext_entities", "dimension_entities", "line_entities",
     "circle_entities", "arc_entities", "other_entities"}

\* C11: in every manifest parse returns, the fallback manifest included,
\* statistics.total_entities is the number of entities of the manifest and
\* the per-category counters (text, mtext, dimension, line/polyline, circle,
\* arc, other) add up to total_entities; a manifest of a completed
\* extraction carries all seven counters.
C11_StatisticsAddUp ==
    Parsed =>
        LET stats == manifest.statistics
            counters == DOMAIN stats \ {"total_entities"}
        IN  /\ stats.total_entities = Len(manifest.entities)
            /\ counters \subseteq CategoryKeys
            /\ SumCounters(stats, counters) = stats.total_entities
            /\ manifest.conversion_status = "success"
                   => counters = CategoryKeys

\* a manifest of two entities counted in two categories, one of them a
\* polyline counted as a line
C11_Witness ==
    /\ Parsed
    /\ manifest.conversion_status = "success"
    /\ manifest.statistics.total_entities = 2
    /\ manifest.statistics.line_entities = 1
    /\ manifest.statistics.other_entities = 1
    /\ \E i \in 1..2 : manifest.entities[i].type = T_LWPOLYLINE

\* a normalised coordinate that is a number of the range 0 to 1
InUnitRange(q) == q[2] > 0 /\ 0 <= q[1] /\ q[1] <= q[2]

\* the box of the entity lies within the extents of the manifest
WithinExtents(entity, extents) ==
    /\ \A i \in {1, 3} : /\ extents.min[1] <= entity.bbox_world[i]
                         /\ entity.bbox_world[i] <= extents.max[1]
    /\ \A i \in {2, 4} : /\ extents.min[2] <= entity.bbox_world[i]
                         /\ entity.bbox_world[i] <= extents.max[2]

Succeeded == Parsed /\ manifest.conversion_status = "success"

\* C12: no normalised coordinate of an extracted entity is the result of a
\* division by zero: on an axis where the extents are degenerate (min = max)
\* the divisor is 1; and the four bbox_norm components of an entity whose
\* box lies within the computed extents are in [0, 1].
C12_NormalizedWithinExtents ==
    Succeeded =>
        \A k \in 1..Len(manifest.entities) :
            LET entity == manifest.entities[k]
                extents == manifest.extents
            IN  /\ \A i \in 1..4 : entity.bbox_norm[i][2] > 0
                /\ \A a \in 1..2 :
                       extents.min[a] = extents.max[a]
                           => \/ entity.bbox_norm[a][2] = Tenths(1)
                              \/ entity.bbox_norm = <<<<0, 1>>, <<0, 1>>,
                                                      <<0, 1>>, <<0, 1>>>>
                /\ WithinExtents(entity, extents)
                       => \A i \in 1..4 : InUnitRange(entity.bbox_norm[i])

\* a single-point document: the extents are degenerate on both axes and the
\* one entity, a line from a point to itself, is normalised to 0 / 1
C12_Witness ==
    /\ Succeeded
    /\ manifest.extents.min = manifest.extents.max
    /\ Len(manifest.entities) = 1
    /\ manifest.entities[1].type = T_LINE
    /\ WithinExtents(manifest.entities[1], manifest.extents)
    /\ manifest.entities[1].bbox_norm[1] = <<0, Tenths(1)>>

\* C13: every entity of every manifest of a completed extraction, whatever
\* its type, has its four bbox_norm components in the range 0 to 1 inclusive.
C13_AllNormalizedInRange ==
    Succeeded =>
        \A k \in 1..Len(manifest.entities) :
            \A i \in 1..4 : InUnitRange(manifest.entities[k].bbox_norm[i])

Formatted == Parsed /\ rag_text # NoText

\* the entities of the manifest that have a non-empty raw_text
TextEntities == SelectSeq(manifest.entities, HasRawText)

\* C14 as claimed: for any manifest, the text extract_text_for_rag returns
\* contains source_file verbatim and, when some entity has a non-empty
\* raw_text, the raw_text of at least one such entity.
C14_RagTextOfAnyManifest ==
    Formatted =>
        /\ Contains(rag_text, manifest.source_file)
        /\ TextEntities # <<>>
               => \E k \in 1..Len(TextEntities) :
                      Contains(rag_text, TextEntities[k].raw_text[1])

\* C14 as amended: the text of a manifest whose conversion did not fail
\* contains source_file verbatim and the raw_text of every entity that has a
\* non-empty one; the text of a conversion_failed manifest ends with its
\* error message and has a single line.
C14_RagTextOfConvertedManifest ==
    Formatted =>
        IF manifest.conversion_status = "conversion_failed"
        THEN /\ Len(rag_text) >= Len(manifest.error_message)
             /\ SubSeq(rag_text,
                       Len(rag_text) - Len(manifest.error_message) + 1,
                       Len(rag_text)) = manifest.error_message
             /\ \A i \in 1..Len(rag_text) : rag_text[i] # "\n"
        ELSE /\ Contains(rag_text, manifest.source_file)
             /\ \A k \in 1..Len(TextEntities) :
                    Contains(rag_text, TextEntities[k].raw_text[1])

\* the text of a manifest with two text entities on two layers
C14_Witness ==
    /\ Formatted
    /\ manifest.conversion_status = "success"
    /\ Len(TextEntities) = 2
    /\ TextEntities[1].layer # TextEntities[2].layer
    /\ Contains(rag_text, TextEntities[2].raw_text[1])
    /\ Contains(rag_text, manifest.source_file)

-----------------------------------------------------------------------------
(* Properties of the raster feature extractor                               *)

\* extract_features has run on an image that could be loaded
Extracted == cv_pc = "done" /\ image.loadable

\* C15: in every result of _detect_lines, the zeroed result of a failure or
\* of an image without lines included, horizontal + vertical + diagonal is
\* total_lines; each detected line is counted once: as horizontal when its
\* angle is below 10 or above 170 degrees, else as vertical when it is
\* between 80 and 100 degrees, else as diagonal.
C15_LinesPartition ==
    Extracted =>
        LET l == features.lines
            H == {i \in 1..Len(image.hough) :
                     AngleBelow10OrAbove170(image.hough[i])}
            V == {i \in 1..Len(image.hough) :
                     AngleBetween80And100(image.hough[i])}
        IN  /\ l.horizontal + l.vertical + l.diagonal = l.total_lines
            /\ IF "lines" \in failing \/ image.hough = NoLines
               THEN l.total_lines = 0
               ELSE /\ l.total_lines = Len(image.hough)
                    /\ l.horizontal = Cardinality(H)
                    /\ l.vertical = Cardinality(V \ H)
                    /\ l.diagonal = Len(image.hough) - Cardinality(H \cup V)

\* two lines, one at 84.3 degrees counted as vertical and one at 135
\* degrees counted as diagonal
C15_Witness ==
    /\ Extracted
    /\ "lines" \notin failing
    /\ image.hough = <<<<5, 15, 6, 5>>, <<5, 5, 0, 10>>>>
    /\ features.lines = [total_lines |-> 2, horizontal |-> 0,
                         vertical |-> 1, diagonal |-> 1]

\* the level the bands give to a score counted in ten-thousandths
BandOf(score) ==
    CASE score < 20000 -> "very_simple"
      [] score >= 20000 /\ score < 40000 -> "simple"
      [] score >= 40000 /\ score < 60000 -> "moderate"
      [] score >= 60000 /\ score < 80000 -> "complex"
      [] score >= 80000 -> "very_complex"

\* C16: for every non-negative edge density and mean gradient the score
\* min(10, edge_density * 100 + avg_gradient / 10) is between 0 and 10, the
\* score reported is that score rounded to two places, and the level is the
\* one the bands give to the score: below 2 very_simple, below 4 simple,
\* below 6 moderate, below 8 complex, otherwise very_complex.
C16_ComplexityClamped ==
    (Extracted /\ "complexity" \notin failing) =>
        LET c == features.complexity
            sum == image.edge_density * 1000 + image.avg_gradient
            score == IF sum > 100000 THEN 100000 ELSE sum
        IN  /\ 0 <= c.complexity_score
            /\ c.complexity_score <= 1000
            /\ c.complexity_score * 100 - score <= 50
            /\ score - c.complexity_score * 100 <= 50
            /\ c.complexity_level = BandOf(score)

\* an image whose every pixel is an edge: the sum is above 10 and the score
\* is 10.00, very_complex
C16_Witness ==
    /\ Extracted
    /\ "complexity" \notin failing
    /\ image.edge_density * 1000 + image.avg_gradient > 100000
    /\ features.complexity.complexity_score = 1000
    /\ features.complexity.complexity_level = "very_complex"

\* the zeroed sub-result of each sub-detector
ZeroOf ==
    [text |-> ZeroText, shapes |-> ZeroShapes, lines |-> ZeroLines,
     complexity |-> ZeroComplexity, color_analysis |-> ZeroColors,
     dimensions |-> ZeroDimensions]

\* C17: extract_features does not fail because a sub-detector raises: the
\* sub-result of each sub-detector that raises is its zeroed value, the
\* sub-result of every other one is what it is when nothing raises, and the
\* feature set returned is complete, without an error entry and with a
\* summary computed from its sub-results.
C17_DegradeNotAbort ==
    Extracted =>
        /\ DOMAIN features
               = Detectors \cup {"image_path", "image_size", "summary"}
        /\ \A d \in Detectors :
               IF d \in failing
               THEN features[d] = ZeroOf[d]
               ELSE features[d] = extract_features(image, {})[d]
        /\ DOMAIN features.summary
               = {"total_text_items", "total_shapes", "total_lines",
                  "complexity", "has_dimensions", "has_technical_terms"}
        /\ features.summary.total_text_items = features.text.text_count
        /\ features.summary.total_shapes
               = features.shapes.circles + features.shapes.rectangles
        /\ features.summary.total_lines = features.lines.total_lines
        /\ features.summary.complexity = features.complexity.complexity_level

\* the complexity computation alone raises on a drawing with lines and
\* text: its sub-result is zeroed, the lines and the text are reported
C17_Witness ==
    /\ Extracted
    /\ failing = {"complexity"}
    /\ features.complexity = ZeroComplexity
    /\ features.summary.complexity = "unknown"
    /\ features.lines.total_lines = 2
    /\ features.text.text_count = 2
    /\ features.summary.total_lines = 2

-----------------------------------------------------------------------------
(* Properties of the summarization call and of the cascade                  *)

\* the synthesis / summary was declared failed on a rate-limit error
SynthesisRateLimited ==
    /\ MultiPass
    /\ synthOutcome = "err"
    /\ IF analyzer = "ADV"
       THEN /\ pc = "done"
            /\ IsRateLimit(ErrorText(summary.error))
       ELSE /\ pc = "raised"
            /\ cascadeLog[Len(cascadeLog)].kind = "quota"

\* C19: the summarization call takes the retry and fallback path of a pass:
\* when the synthesis is declared failed on a rate-limit error, the call has
\* been issued again to the same model after a back-off and has been issued
\* to a fallback model or provider.
C19_SynthesisRetriedAndCascaded ==
    SynthesisRateLimited =>
        IF analyzer = "ADV"
        THEN synthCalls > 1 /\ Cardinality(targets) > 1
        ELSE /\ \E i, j \in 1..Len(cascadeLog) :
                    i < j /\ cascadeLog[i].to = cascadeLog[j].to
             /\ Len(cascadeLog) > 1

\* the primary model of a request that has a fallback to go to answered
\* with a failure that is not a rate limit, and the request has ended
PrimaryFailedOtherwise ==
    /\ analyzer = "MM"
    /\ pc = "raised"
    /\ cascadeLog # <<>>
    /\ cascadeLog[1].pos = "primary"
    /\ cascadeLog[1].kind = "error"
    /\ \/ FallbackAvailable(MODELS_get(model_id), gemini_models)
       \/ openrouter_api_key

\* C20: a failure of the primary model that is not a rate limit makes the
\* cascade go on to the next model or provider instead of surfacing at once,
\* and the failing call is not issued again without bound.
C20_FailureTriggersFallback ==
    PrimaryFailedOtherwise =>
        /\ Len(cascadeLog) > 1
        /\ Cardinality({i \in 1..Len(cascadeLog) :
                            cascadeLog[i].pos = "primary"}) <= 1

-----------------------------------------------------------------------------
(* Properties of the dispatch of models outside the direct family           *)

\* the display name the registry declares for a model id
DisplayName(id) ==
    LET i == CHOOSE k \in 1..Len(ModelTable) : ModelTable[k].id = id
    IN  ModelTable[i].name

\* the requested model is registered with a provider other than GEMINI_DIRECT
OtherProvider ==
    /\ analyzer = "MM"
    /\ \E k \in 1..Len(ModelTable) :
          /\ ModelTable[k].id = model_id
          /\ ModelTable[k].provider # "GEMINI_DIRECT"

\* C21: for a model whose provider is not GEMINI_DIRECT,
\* analyze_with_auto_fallback makes exactly one provider call, through the
\* OpenRouter path and with the requested model id; when the call fails no
\* other model or provider is tried and the error leaves the request; when it
\* succeeds the provider returned is the display name of the model.
C21_DirectDispatch ==
    OtherProvider =>
        /\ targets \subseteq {model_id}
        /\ \A c \in outstanding : c.to = model_id
        /\ pc = "mm_wait" => Len(cascadeLog) = 1
        /\ Len(cascadeLog) <= 1
        /\ \A i \in 1..Len(cascadeLog) :
              /\ cascadeLog[i].pos = "direct"
              /\ cascadeLog[i].to = model_id
              /\ cascadeLog[i].kind = "error" =>
                    /\ pc = "raised"
                    /\ raised = "Exception"
                    /\ outstanding = {}
              /\ cascadeLog[i].kind = "ok" =>
                    used_provider = <<DisplayName(model_id)>>

\* the single call to the Nemotron model failed with a rate-limit text and
\* the request ended there, no key for the cross-provider path being needed
C21_Witness ==
    /\ analyzer = "MM"
    /\ model_id = "nvidia/nemotron-nano-12b-v2-vl:free"
    /\ pc = "raised"
    /\ Len(cascadeLog) = 1
    /\ cascadeLog[1].kind = "error"
    /\ idx = 2
    /\ used_provider = <<"NVIDIA Nemotron Nano VL">>

-----------------------------------------------------------------------------
(* Properties of the report while comprehensive_analysis runs               *)

\* the number of passes whose result comprehensive_analysis has filed
Processed ==
    IF pc \in {"start", "raised", "adv_call", "adv_wait", "adv_backoff"}
    THEN idx - 1 ELSE idx

\* the places where pass number i is named in analyses and in errors
InAnalyses(i) == {k \in 1..Len(analyses) : analyses[k].pass = PassNames[i]}
InErrors(i) == {k \in 1..Len(errors) : errors[k].pass = PassNames[i]}

\* C28: at every point of comprehensive_analysis of
\* AdvancedCADVisualAnalyzer each pass already processed is named exactly
\* once in analyses and errors taken together, a pass not yet processed is
\* named in neither, the two together have as many entries as passes were
\* processed, and on return that number is the number of configured passes.
C28_ReportPartition ==
    analyzer = "ADV" =>
        /\ \A i \in 1..TotalPasses :
              Cardinality(InAnalyses(i)) + Cardinality(InErrors(i)) =
                  IF i <= Processed THEN 1 ELSE 0
        /\ \A i \in 1..Processed :
              /\ InAnalyses(i) # {} <=> lastOutcome[i] = "ok"
              /\ InErrors(i) # {} <=> lastOutcome[i] = "err"
        /\ Len(analyses) + Len(errors) = Processed
        /\ pc = "done" => Len(analyses) + Len(errors) = TotalPasses

\* the fourth pass is being called after two successes and one failure
C28_Witness ==
    /\ analyzer = "ADV"
    /\ pc = "adv_wait"
    /\ idx = 4
    /\ Len(analyses) = 2
    /\ Len(errors) = 1
    /\ errors[1].pass = "technical"

-----------------------------------------------------------------------------
(* Properties of the waits of analyze_single_pass                           *)

\* analyze_single_pass has returned the result of the current pass
PassReturned ==
    /\ analyzer \in {"ADV", "PASS"}
    /\ pc \in {"adv_pace", "adv_synth", "adv_synth_wait", "done"}
    /\ result.pass_name = PassNames[idx]

\* a wait is going on only after a rate-limit error that is not on the last
\* permitted attempt, and every wait so far was followed by a call
WaitsLeadToCalls ==
    /\ pc = "adv_backoff" =>
          /\ IsRateLimit(ErrorText(lastWait[1]))
          /\ attempt < retry_count - 1
          /\ nwaits = calls
    /\ pc = "adv_call" => nwaits = calls
    /\ pc = "adv_wait" => nwaits = calls - 1

-----------------------------------------------------------------------------
(* Properties of the fallback attempts of analyze_with_auto_fallback        *)

\* the requested model is a GEMINI_DIRECT model of the registry
DirectFamily ==
    /\ analyzer = "MM"
    /\ \E k \in 1..Len(ModelTable) :
          /\ ModelTable[k].id = model_id
          /\ ModelTable[k].provider = "GEMINI_DIRECT"

\* the registry declares a fallback model for the requested model and
\* __init__ has initialised it
FallbackUsable ==
    \E k \in 1..Len(ModelTable) :
        /\ ModelTable[k].id = model_id
        /\ ModelTable[k].fallback_model # None
        /\ ModelTable[k].fallback_model \in gemini_models

\* the call number i of the current invocation failed
FailedCall(i) == cascadeLog[i].kind \in {"quota", "error"}

\* C30: in analyze_with_auto_fallback of a GEMINI_DIRECT model a second call
\* is made only after a quota error of the primary model; it goes to the
\* fallback model when one is declared and initialised and directly to the
\* cross-provider model otherwise; any failure of the fallback model is
\* followed by the cross-provider call when a key is configured; the
\* cross-provider call is made only with a key; and exhaustion is raised
\* after the 1 to 3 calls that were available, all of them failed.
C30_FallbackOnlyAfterQuota ==
    DirectFamily =>
        LET n == Len(cascadeLog)
            ended == pc = "raised" /\ n >= 1
        IN  /\ n <= 3
            /\ n >= 1 => cascadeLog[1].pos = "primary"
            /\ n >= 2 =>
                  /\ cascadeLog[1].kind = "quota"
                  /\ cascadeLog[2].pos =
                        IF FallbackUsable THEN "fallback" ELSE "openrouter"
            /\ n >= 3 =>
                  /\ cascadeLog[2].pos = "fallback"
                  /\ FailedCall(2)
                  /\ cascadeLog[3].pos = "openrouter"
            /\ \A i \in 1..n :
                  cascadeLog[i].pos = "openrouter" => openrouter_api_key
            /\ (ended /\ cascadeLog[n].pos = "fallback") =>
                  ~openrouter_api_key
            /\ (ended /\ cascadeLog[1].kind = "quota") =>
                  /\ raised = "Exhausted"
                  /\ n = 1 + (IF FallbackUsable THEN 1 ELSE 0)
                          + (IF openrouter_api_key THEN 1 ELSE 0)
                  /\ \A i \in 1..n : FailedCall(i)
            /\ raised = "Exhausted" =>
                  /\ n \in 1..3
                  /\ cascadeLog[1].kind = "quota"

\* the fallback model failed with an error that is no quota error, the
\* cross-provider call was made and failed too, and exhaustion was raised
\* after three calls
C30_Witness ==
    /\ DirectFamily
    /\ raised = "Exhausted"
    /\ Len(cascadeLog) = 3
    /\ cascadeLog[2].kind = "error"
    /\ cascadeLog[3].pos = "openrouter"

-----------------------------------------------------------------------------
(* Properties of the extents, of skipped entities and of the entity ids     *)

\* parse has returned the manifest of a completed extraction, for the first
\* time or again
Manifested ==
    /\ parser_pc \in {"parsed", "reparsed"}
    /\ manifest.conversion_status = "success"

\* the attributes the extents computation reads, in its order
CoordinateAttrs == <<"insert", "start", "end", "center", "location">>

\* the first coordinate attribute an entity has, as a set of at most one point
FirstCoordinate(entity) ==
    LET has == {i \in 1..Len(CoordinateAttrs) :
                    entity[CoordinateAttrs[i]] # Absent}
    IN  {entity[CoordinateAttrs[i]] : i \in {k \in has : \A j \in has : k <= j}}

\* every coordinate attribute the extents computation reads of an entity:
\* insert alone when the entity has it, and otherwise all the others it has
ReadCoordinates(entity) ==
    IF entity.insert # Absent THEN {entity.insert}
    ELSE {entity[CoordinateAttrs[i]] : i \in {k \in 2..Len(CoordinateAttrs) :
                                               entity[CoordinateAttrs[k]] # Absent}}

\* extents is the smallest box around the points, the default box
\* [0,0]-[100,100] when there are none
BoxAround(extents, points) ==
    IF points = {}
    THEN extents = [min |-> <<0, 0>>, max |-> <<Tenths(100), Tenths(100)>>]
    ELSE \A a \in 1..2 :
            /\ \A q \in points : extents.min[a] <= q[a] /\ q[a] <= extents.max[a]
            /\ \E q \in points : q[a] = extents.min[a]
            /\ \E q \in points : q[a] = extents.max[a]

\* C25 as stated: each entity contributes at most one point to the extents,
\* the first attribute it has in the order insert, start, end, center,
\* location; with no point at all the extents are [0,0]-[100,100].
C25_FirstAttributeOnly ==
    Manifested =>
        BoxAround(manifest.extents,
                  UNION {FirstCoordinate(dxf.msp[i]) : i \in 1..Len(dxf.msp)})

\* C25 amended: an entity that has insert contributes that point only; an
\* entity without insert contributes every one of start, end, center and
\* location that it has, so a LINE contributes both its ends; an entity with
\* none of the five leaves the extents as they are; with no point at all the
\* extents are [0,0]-[100,100].
C25_InsertOrEveryAttribute ==
    Manifested =>
        BoxAround(manifest.extents,
                  UNION {ReadCoordinates(dxf.msp[i]) : i \in 1..Len(dxf.msp)})

\* a document of one LINE from (0,0) to (4,2) and a DIMENSION, which has
\* none of the attributes: the extents span both ends of the line
C25_Witness ==
    /\ Manifested
    /\ Len(dxf.msp) = 2
    /\ dxf.msp[1].dxftype = T_LINE
    /\ dxf.msp[2].dxftype = T_DIMENSION
    /\ manifest.extents = [min |-> <<0, 0>>, max |-> <<Tenths(4), Tenths(2)>>]

\* the number an entity id ends in
IdNumber(id) == IntOf(SubSeq(id, 5, Len(id)))

\* the places of the modelspace whose entity raises when it is extracted
RaisingPlaces ==
    {i \in 1..Len(dxf.msp) :
        \/ /\ dxf.msp[i].dxftype = T_TEXT
           /\ \E a \in {"text", "insert", "height"} : dxf.msp[i][a] = Absent
        \/ /\ dxf.msp[i].dxftype = T_MTEXT
           /\ dxf.msp[i].insert = Absent}

\* C26: when the extraction of an entity raises, that entity is left out
\* and the extraction goes on: every readable file is extracted, its
\* manifest holds the other entities in document order, each under the
\* number of its place in the document, and the statistics count the
\* entities kept.
C26_RaisingEntitySkipped ==
    (dxf.readable /\ parser_pc \in {"parsed", "reparsed"}) =>
        LET kept == manifest.entities
            places == (1..Len(dxf.msp)) \ RaisingPlaces
        IN  /\ manifest.conversion_status = "success"
            /\ Len(kept) = Cardinality(places)
            /\ \A k \in 1..Len(kept) :
                  /\ IdNumber(kept[k].id) = KthOf(places, k)
                  /\ kept[k].type = dxf.msp[KthOf(places, k)].dxftype
            /\ manifest.statistics.total_entities = Len(kept)

\* of three entities the second raised: the manifest holds the first and
\* the third
C26_Witness ==
    /\ Manifested
    /\ Len(dxf.msp) = 3
    /\ RaisingPlaces = {2}
    /\ Len(manifest.entities) = 2
    /\ manifest.entities[2].type = T_CIRCLE
    /\ manifest.statistics.total_entities = 2

\* C27: within a manifest the entity ids are "ent_" and six digits, pairwise
\* distinct and increasing in entity order, also across skipped entities;
\* the number is the place of the entity in the document, counted from 1 in
\* every extraction, so that a second extraction by the same extractor gives
\* the same ids.
C27_IdsDistinctAndStable ==
    Manifested =>
        LET kept == manifest.entities
        IN  /\ \A k \in 1..Len(kept) :
                  /\ Len(kept[k].id) = 10
                  /\ SubSeq(kept[k].id, 1, 4) = <<"e", "n", "t", "_">>
                  /\ IdNumber(kept[k].id) \in 1..Len(dxf.msp)
                  /\ kept[k].type = dxf.msp[IdNumber(kept[k].id)].dxftype
            /\ \A j, k \in 1..Len(kept) :
                  j < k => /\ kept[j].id # kept[k].id
                           /\ IdNumber(kept[j].id) < IdNumber(kept[k].id)
            /\ entity_counter = Len(dxf.msp)

\* the second extraction of the three entities of which the second raises:
\* the ids are ent_000001 and ent_000003 again
C27_Witness ==
    /\ parser_pc = "reparsed"
    /\ manifest.conversion_status = "success"
    /\ Len(dxf.msp) = 3
    /\ Len(manifest.entities) = 2
    /\ manifest.entities[1].id =
          <<"e", "n", "t", "_", "0", "0", "0", "0", "0", "1">>
    /\ manifest.entities[2].id =
          <<"e", "n", "t", "_", "0", "0", "0", "0", "0", "3">>

-----------------------------------------------------------------------------
(* Hybrid analysis with CV assistance                                       *)

\* the calls of an analyze_with_cv_assistance that carried an image
WithImage(log) == {i \in 1..Len(log) : log[i].image}

\* C22: analyze_with_cv_assistance sends image bytes to the provider only
\* when include_vision is requested and the model has the vision capability;
\* otherwise the provider is called without image with the CV feature
\* prompt and the analysis proceeds; and the method of the result is
\* "vision+cv" exactly when an image was sent and "cv_only" otherwise.
C22_MethodTellsWhetherImageWasSent ==
    analyzer = "CVA" =>
        /\ WithImage(cascadeLog) # {} =>
              include_vision /\ "vision" \in MODELS_get(model_id).capabilities
        /\ \A c \in outstanding : c.pass.cv = format_for_llm(features)
        /\ pc = "done" =>
              /\ cascadeLog # <<>>
              /\ hy_result.llm_analysis # <<>>
              /\ hy_result.method =
                    IF cascadeLog[Len(cascadeLog)].image THEN "vision+cv"
                    ELSE "cv_only"

\* the analyze_with_cv_assistance with these provider calls returned
ReturnedFrom(log) == log # <<>> /\ log[Len(log)].kind = "ok"

\* the calls begin at the head of the cascade of the model itself
StartsAfresh(t) ==
    t.log # <<>> =>
        LET model_info == MODELS_get(t.model)
            pos == IF model_info.provider = "GEMINI_DIRECT" THEN "primary"
                   ELSE "direct"
        IN  /\ t.log[1].pos = pos
            /\ t.log[1].to = CascadeTarget(pos, model_info)

\* C23: in comprehensive_hybrid_analysis the analyses of the models are
\* independent: once the file exists the request never raises; the failure
\* of the vision model or of a text model is recorded for that model only;
\* every requested model is analysed, its calls starting at the head of its
\* own cascade; and text_analyses ends with one entry per requested text
\* model, in the order of the request.
C23_PerModelIndependence ==
    analyzer = "HYB" =>
        /\ pc = "raised" => ~png_exists
        /\ \A k \in 1..Len(trail) :
              /\ trail[k].model = IF k = 1 THEN vision_model_id
                                  ELSE text_model_ids[k - 1]
              /\ StartsAfresh(trail[k])
        /\ Len(trail) >= 1 =>
              ("error" \in DOMAIN vision_analysis
                  <=> ~ReturnedFrom(trail[1].log))
        /\ Len(text_analyses) = IF trail = <<>> THEN 0 ELSE Len(trail) - 1
        /\ \A i \in 1..Len(text_analyses) :
              /\ text_analyses[i].model_id = text_model_ids[i]
              /\ IF ReturnedFrom(trail[i + 1].log)
                 THEN "llm_analysis" \in DOMAIN text_analyses[i]
                 ELSE DOMAIN text_analyses[i] = {"model_id", "error"}
        /\ pc = "done" =>
              /\ Len(text_analyses) = Len(text_model_ids)
              /\ synthesis # <<>>

\* the vision model used up its cascade, the first text model failed and the
\* second one, a GEMINI_DIRECT model, was analysed from its primary model on
C23_Witness ==
    /\ analyzer = "HYB"
    /\ pc = "done"
    /\ Len(text_model_ids) = 2
    /\ "error" \in DOMAIN vision_analysis
    /\ Len(trail[1].log) = 3
    /\ "error" \in DOMAIN text_analyses[1]
    /\ "llm_analysis" \in DOMAIN text_analyses[2]
    /\ trail[3].log[1].pos = "primary"

-----------------------------------------------------------------------------
(* The MODELS registry                                                      *)

\* the descriptor the registry holds for id equals the declared one
AsDeclared(id) ==
    \E i \in 1..Len(ModelTable) :
        /\ ModelTable[i].id = id
        /\ MODELS_get(id).provider = ModelTable[i].provider
        /\ MODELS_get(id).capabilities = ModelTable[i].capabilities
        /\ MODELS_get(id).fallback_provider = ModelTable[i].fallback_provider
        /\ MODELS_get(id).fallback_model = ModelTable[i].fallback_model

\* C24: no operation of the analyzers (analyze_with_auto_fallback,
\* comprehensive_analysis, the hybrid analyses) modifies the MODELS
\* registry: whatever analyses, successes, quota errors and fallbacks have
\* happened, the registry holds the declared models and no others, and
\* provider, capabilities, fallback_provider and fallback_model of each are
\* as declared.
C24_RegistryNeverModified ==
    /\ Len(MODELS) = Len(ModelTable)
    /\ \A i \in 1..Len(MODELS) : MODELS[i] = ModelTable[i]
    /\ \A id \in ModelIds : AsDeclared(id)

\* a hybrid request ended in which a GEMINI_DIRECT model went through its
\* whole cascade after quota errors and an unknown model was looked up
C24_Witness ==
    /\ analyzer = "HYB"
    /\ pc = "done"
    /\ \E k \in 1..Len(trail) :
          /\ Len(trail[k].log) = 3
          /\ trail[k].log[1].kind = "quota"
          /\ trail[k].log[3].kind = "ok"
    /\ \E k \in 1..Len(trail) : trail[k].model = "no-such-model"

=============================================================================
